---- MODULE Spec2Model ----
(***************************************************************************)
(* A model of pytdbot_sync.Client (src/pytdbot_sync/client.py): the call   *)
(* correlator (invoke, _process_update, the retry policies), the handler   *)
(* registry (add_handler, remove_handler), the handler chain executor      *)
(* (_update_worker) and the authorization state machine (login,            *)
(* __handle_authorization_state).                                          *)
(*                                                                         *)
(* Each part has a specification of its own over the same variables:       *)
(*   Spec          invoke, the Receiver and the retry policies             *)
(*   SpecSolo      Spec with one issuing thread                            *)
(*   FairSpec      Spec with the scheduling fairness of the threads        *)
(*   SpecRegistry  add_handler / remove_handler                            *)
(*   SpecChain     _update_worker and the three phases                     *)
(*   SpecAuth      login() and the authorization handler on the workers    *)
(*   FairSpecAuth  SpecAuth with the scheduling fairness of the threads    *)
(*   SpecRace      the handler list changed while a chain runs             *)
(*   SpecSend      send_message and the acknowledgements of the engine     *)
(*   SpecStart     start() and the threads running __listen_loop           *)
(*   SpecPair      Spec with a second thread that issues one call          *)
(*   SpecDispatch  _process_update on every kind of inbound message        *)
(*   SpecOrder     the tasks of the pool run by one or two workers         *)
(*   SpecPrompt    the prompts of the authorization handler on two workers *)
(*   SpecDecorators the decorators of handlers/decorators.py             *)
(*   FairSpecSend  SpecSend with the Receiver thread scheduled             *)
(***************************************************************************)
EXTENDS Integers, Sequences, FiniteSets, TLC

\* ------------------------------------------------------------------ bounds
Threads == {1, 2}          \* the application threads that issue calls
MaxCalls == 1              \* top-level invoke calls per thread
RecursionLimit == 2        \* invoke frames a thread may nest (sys.getrecursionlimit)
MaxRetryAfter == 1         \* largest "retry after N" the engine answers
MaxThreshold == 1          \* largest configured sleep_threshold
MaxHandlers == 4           \* add_handler calls
MaxChainHandlers == 3      \* handlers registered before events are dispatched
MaxPosition == 2           \* largest explicit handler position
MaxEvents == 2             \* events dispatched to the handler chain
MaxRejects == 1            \* answers of the operator the engine rejects
MaxStops == 2              \* stop() calls
MaxRepeats == 1            \* WaitPassword events the engine emits again
MaxStarts == 3             \* Receiver threads start() spawns

\* sleep_threshold when the argument is left out (None): lines 152-154
DefaultSleepThreshold == 0

\* workers: int = 5, line 125
DefaultWorkers == 5

\* The pool sizes the authorization flow is run with.
PoolSizes == {1, 2}

\* ------------------------------------------------------------ wire payloads
\* An error message is <<text, hasNum, num>>: its text and, when the text ends in
\* an integer literal, that integer: "Too Many Requests: retry after 3" is the
\* prefix, TRUE and 3.
retry_after_prefex == "Too Many Requests: retry after "

Msg(text, hasNum, num) == <<text, hasNum, num>>

NoMsg == Msg("", FALSE, 0)

ChatNotFoundMsg == Msg("Chat not found", FALSE, 0)

Payload(type, code, message) == [type |-> type, code |-> code, message |-> message]

NoResult == Payload("none", 0, NoMsg)

OkPayload == Payload("ok", 0, NoMsg)

RateLimited(n) == Payload("error", 429, Msg(retry_after_prefex, TRUE, n))

RateLimitedNoDelay == Payload("error", 429, Msg("Too Many Requests", FALSE, 0))

ChatNotFound == Payload("error", 400, ChatNotFoundMsg)

OtherError == Payload("error", 400, Msg("Bad Request", FALSE, 0))

\* What the engine may answer to a request.
Responses ==
    {OkPayload, RateLimitedNoDelay, ChatNotFound, OtherError}
        \cup {RateLimited(n) : n \in 1..MaxRetryAfter}

VARIABLES
    sleep_threshold,        \* Client.sleep_threshold
    use_message_database,   \* Client.use_message_database
    is_running,             \* Client.is_running
    is_authenticated,       \* Client.is_authenticated
    workers_shutdown,       \* the ThreadPoolExecutor has been shut down
    results,                \* Client._results: the registered ids, each with the
                            \* <<thread, depth>> of the invoke frame owning the Result
    seq,                    \* per thread, how many Result ids it has generated
    stack,                  \* per thread, its nested invoke frames
    quota,                  \* per thread, the invoke calls it will issue
    calls,                  \* per thread, invoke calls issued
    returns,                \* per thread, invoke calls that returned a Result
    raises,                 \* per thread, invoke calls that ended in an exception
    done,                   \* per thread, the record of its last finished call
    inflight,               \* requests the engine holds unanswered
    tdClosed                \* the engine has closed: it answers nothing more

VARIABLES
    handlers,               \* Client._handlers: per key, the list of Handler
    keyOrder,               \* the keys of Client._handlers, in insertion order
    regCount,               \* add_handler calls so far
    lastRemove              \* what the last remove_handler call returned

coreVars ==
    <<sleep_threshold, use_message_database, is_running, is_authenticated,
      workers_shutdown, results, seq, stack, quota, calls, returns, raises,
      done, inflight, tdClosed>>

VARIABLES
    chain,                  \* the worker running _update_worker: where it is
    events                  \* events submitted to the worker pool so far

VARIABLES
    mainPc,                 \* the application's main thread: start() and login()
    login_requested,        \* Client.__login
    authorization_state,    \* Client.__authorization_state
    is_closing,             \* Client.__is_closing
    token,                  \* Client.__token: none, a bot token or a phone number
    pool,                   \* the tasks submitted to Client.workers, oldest first
    task,                   \* the worker running __handle_authorization_state
    tdState,                \* the engine's authorization state
    tdEvents,               \* authorization events the engine has emitted
    authErrors,             \* AuthorizationError raised so far
    workers,                \* the size of the pool Client.workers
    authLog,                \* what the authorization flow did so far: the events
                            \* the Receiver handed over, the states recorded, the
                            \* calls issued, the answers rejected
    stopper                 \* the thread calling stop(): where it is, its calls and
                            \* how many returned True

VARIABLES
    sender,                 \* per sending thread: where it is in its send, the
                            \* chat, the message id and the key it waits under
    table,                  \* the send-message entries of Client._results
    inbox,                  \* what the engine has emitted and the Receiver not read
    receiver,               \* the Receiver thread: where it is in __listen_loop
    listeners,              \* the threads start() has spawned for __listen_loop,
                            \* oldest first, each with where it is (SpecStart)
    book,                   \* Client.connection_state, Client.options, Client.me
    running                 \* the tasks the workers of the pool have taken and not
                            \* yet run (SpecOrder)

regVars == <<handlers, keyOrder, regCount, lastRemove>>

sendVars == <<sender, table, inbox, receiver, listeners, book, running>>

chainVars == <<chain, events>>

authVars ==
    <<mainPc, login_requested, authorization_state, is_closing, token, pool,
      task, tdState, tdEvents, authErrors, workers, authLog, stopper>>

vars == <<coreVars, regVars, chainVars, authVars, sendVars>>

\* ------------------------------------------------------------ Result
\* types.Result: one Call Future. A frame of invoke owns one.
is_error(r) == r.type = "error"

\* Result(request): a fresh id, nothing received yet.
NewResult(f, id) ==
    [f EXCEPT !.id = id, !.processed = FALSE, !.res = NoResult, !.att = 0]

\* Result.reset(): a new id, the event cleared, the payload dropped.
reset(f, id) == NewResult(f, id)

\* Result.set_result(update): the payload stored, the event set.
set_result(f, payload, att) ==
    [f EXCEPT !.processed = TRUE, !.res = payload, !.att = att]

\* The id the thread generates next: unique in the process.
FreshId(t) == <<t, seq[t] + 1>>

\* ------------------------------------------------------------ invoke
Frame(role, chat, msg, id) ==
    [role |-> role,         \* "call" (the application's), "getChat", "getMessage"
     chat |-> chat,         \* "chat_id" in request
     msg |-> msg,           \* the request carries a message id > 0
     id |-> id,             \* Result.id
     pc |-> "wait",         \* wait, rwait (the wait after a re-send),
                            \* inGetChat, inGetMessage (in a nested call)
     processed |-> FALSE,   \* Result's event
     res |-> NoResult,      \* Result.result
     att |-> 0,             \* which send of this frame res answers
     sends |-> 1,           \* times the request went to the engine
     first |-> NoResult,    \* the outcome of the first send
     look |-> NoResult,     \* what the engine first answered to the getChat lookup
     lookRet |-> NoResult]  \* what the getChat lookup returned

Top(stk) == stk[Len(stk)]

Pop(stk) == SubSeq(stk, 1, Len(stk) - 1)

SetTop(stk, f) == [stk EXCEPT ![Len(stk)] = f]

\* get_retry_after_time: int(message.removeprefix(prefix)), 0 when that fails.
get_retry_after_time(m) ==
    LET rest == IF m[1] = retry_after_prefex THEN "" ELSE m[1]
    IN  IF rest = "" /\ m[2] THEN m[3] ELSE 0

\* line 358 with < for <=
ShouldRetryStrict(retry_after) == retry_after < sleep_threshold

\* line 358
ShouldRetry(retry_after) == retry_after <= sleep_threshold

\* lines 371-375 without the test of use_message_database
IsStaleChatAlways(f, r) ==
    /\ r.code = 400
    /\ r.message = ChatNotFoundMsg
    /\ f.chat

\* lines 371-375
IsStaleChat(f, r) ==
    /\ ~use_message_database
    /\ r.code = 400
    /\ r.message = ChatNotFoundMsg
    /\ f.chat

\* What a step of invoke ends in: the request of the top frame of stk goes to the
\* engine ("send"), the application's call returns ("returned"), or an exception
\* leaves invoke ("raised"). fin is the finished call's record.
Out(kind, stk, fin) == [kind |-> kind, stk |-> stk, fin |-> fin]

Fin(how, f, look) ==
    [how |-> how, chat |-> f.chat, msg |-> f.msg, first |-> f.first,
     res |-> f.res, att |-> f.att, sends |-> f.sends, look |-> look,
     lookRet |-> f.lookRet]

NoFin == Fin("none", Frame("call", FALSE, FALSE, <<0, 0>>), NoResult)

\* RecursionError in a nested call: nothing in invoke catches it, every frame of
\* the thread unwinds. The record is the application's call, with what the engine
\* first answered to its getChat lookup, if it got that far.
Unwound(stk) ==
    LET f == stk[1]
        look == IF f.pc = "inGetChat" /\ Len(stk) >= 2 THEN stk[2].first ELSE f.look
    IN  Out("raised", <<>>, Fin("raised", f, look))

\* A nested self.getChat(...) / self.getMessage(...), lines 380 and 394: one more
\* invoke frame (lines 343-351), or RecursionError at the interpreter's limit.
Nested(stk, id, parentPc, role, msg) ==
    LET s == SetTop(stk, [Top(stk) EXCEPT !.pc = parentPc])
    IN  IF Len(stk) < RecursionLimit
        THEN Out("send", Append(s, Frame(role, TRUE, msg, id)), NoFin)
        ELSE Unwound(s)

\* reset() and the re-send, lines 359-369 and 397-399.
Again(stk, id) ==
    Out("send",
        SetTop(stk, [reset(Top(stk), id) EXCEPT !.pc = "rwait", !.sends = @ + 1]),
        NoFin)

\* return result (line 404) of the frame c, the top of stk, to whoever called:
\* the application, or the invoke frame that made the nested call, which goes on
\* from line 382 (after getChat) or line 397 (after getMessage).
RECURSIVE Deliver(_, _)
Deliver(stk, id) ==
    LET c == Top(stk)
        rest == Pop(stk)
    IN  IF rest = <<>>
        THEN Out("returned", <<>>, Fin("returned", c, c.look))
        ELSE LET p == Top(rest)
             IN  IF p.pc = "inGetChat"
                 THEN LET q == [p EXCEPT !.look = c.first, !.lookRet = c.res]
                      IN  IF ~is_error(c.res)
                          THEN IF q.msg
                               THEN Nested(SetTop(rest, q), id, "inGetMessage",
                                           "getMessage", TRUE)
                               ELSE Again(SetTop(rest, q), id)
                          ELSE Deliver(SetTop(rest, q), id)
                 ELSE Again(rest, id)

\* invoke from the return of result.wait(): lines 352-375 after the first send,
\* lines 370/400 after the re-send.
Classify(stk, id) ==
    LET f == Top(stk)
        r == f.res
    IN  IF f.pc = "rwait"
        THEN Deliver(stk, id)
        ELSE LET g == [f EXCEPT !.first = r]
                 s == SetTop(stk, g)
             IN  IF is_error(r) /\ r.code = 429
                 THEN IF ShouldRetry(get_retry_after_time(r.message))
                      THEN Again(s, id)
                      ELSE Deliver(s, id)
                 ELSE IF is_error(r) /\ IsStaleChat(g, r)
                      THEN Nested(s, id, "inGetChat", "getChat", FALSE)
                      ELSE Deliver(s, id)

\* self._results[result.id] = result; self.__send(result.request)
Register(id, t, d, att) ==
    /\ results' = results \cup {[id |-> id, t |-> t, d |-> d]}
    /\ inflight' = inflight \cup {[id |-> id, att |-> att]}

\* invoke, lines 343-351: the Result is created and registered, the request sent.
Invoke(t, chat, msg) ==
    /\ stack[t] = <<>>
    /\ calls[t] < quota[t]
    /\ stack' = [stack EXCEPT ![t] = <<Frame("call", chat, msg, FreshId(t))>>]
    /\ Register(FreshId(t), t, 1, 1)
    /\ seq' = [seq EXCEPT ![t] = @ + 1]
    /\ calls' = [calls EXCEPT ![t] = @ + 1]
    /\ UNCHANGED <<quota, sleep_threshold, use_message_database, is_running,
                   is_authenticated, workers_shutdown, returns, raises, done,
                   tdClosed>>

\* invoke, lines 352-404: result.wait() returns and the thread runs on to its
\* next send, to the return of the application's call, or to an exception.
Resume(t) ==
    /\ stack[t] # <<>>
    /\ Top(stack[t]).processed
    /\ LET out == Classify(stack[t], FreshId(t))
       IN  /\ stack' = [stack EXCEPT ![t] = out.stk]
           /\ IF out.kind = "send"
              THEN /\ Register(FreshId(t), t, Len(out.stk), Top(out.stk).sends)
                   /\ seq' = [seq EXCEPT ![t] = @ + 1]
                   /\ UNCHANGED <<returns, raises, done>>
              ELSE /\ done' = [done EXCEPT ![t] = out.fin]
                   /\ returns' = [returns EXCEPT ![t] =
                                     IF out.kind = "returned" THEN @ + 1 ELSE @]
                   /\ raises' = [raises EXCEPT ![t] =
                                     IF out.kind = "raised" THEN @ + 1 ELSE @]
                   /\ UNCHANGED <<results, inflight, seq>>
    /\ UNCHANGED <<quota, sleep_threshold, use_message_database, is_running,
                   is_authenticated, workers_shutdown, calls, tdClosed>>

\* ------------------------------------------------------------ Receiver
Registered(id) == {e \in results : e.id = id}

\* line 599 with _results[id] for _results.pop(id): the entry stays in the table
process_response_keep(id, payload, att) ==
    IF Registered(id) # {}
    THEN LET e == CHOOSE e \in Registered(id) : TRUE
         IN  /\ UNCHANGED results
             /\ stack' = [stack EXCEPT ![e.t][e.d] = set_result(@, payload, att)]
    ELSE UNCHANGED <<results, stack>>

\* _process_update, lines 593-607: a message with "@extra". If its id is in
\* _results the Result is popped and resolved; otherwise nothing is resolved.
process_response(id, payload, att) ==
    IF Registered(id) # {}
    THEN LET e == CHOOSE e \in Registered(id) : TRUE
         IN  /\ results' = results \ {e}
             /\ stack' = [stack EXCEPT ![e.t][e.d] = set_result(@, payload, att)]
    ELSE UNCHANGED <<results, stack>>

\* __listen_loop, lines 575-579: the engine answers one request, the Receiver
\* reads the answer and processes it.
Respond ==
    /\ is_running
    /\ ~tdClosed
    /\ \E m \in inflight, p \in Responses :
          /\ process_response(m.id, p, m.att)
          /\ inflight' = inflight \ {m}
    /\ UNCHANGED <<quota, sleep_threshold, use_message_database, is_running,
                   is_authenticated, workers_shutdown, seq, calls, returns,
                   raises, done, tdClosed>>

\* The latest request of each thread, once it is answered: its id is no longer
\* held by the engine.
Answered ==
    {<<t, seq[t]>> : t \in {u \in Threads : seq[u] > 0}} \ {m.id : m \in inflight}

\* The transport delivers an answer a second time (a duplicate or late message),
\* a result or an error.
Duplicate ==
    /\ is_running
    /\ ~tdClosed
    /\ \E id \in Answered, p \in {OkPayload, OtherError} : process_response(id, p, 0)
    /\ UNCHANGED <<quota, sleep_threshold, use_message_database, is_running,
                   is_authenticated, workers_shutdown, seq, calls, returns,
                   raises, done, inflight, tdClosed>>

\* The engine closes (authorizationStateClosed): it answers nothing after this.
TdClose ==
    /\ ~tdClosed
    /\ tdClosed' = TRUE
    /\ UNCHANGED <<quota, sleep_threshold, use_message_database, is_running,
                   is_authenticated, workers_shutdown, results, seq, stack,
                   calls, returns, raises, done, inflight>>

\* __stop_client, lines 1068-1072
stop_client ==
    /\ is_authenticated' = FALSE
    /\ is_running' = FALSE
    /\ workers_shutdown' = TRUE

\* The client has seen the engine close, in stop() or in the authorization
\* handler, and tears down.
StopOnClosed ==
    /\ tdClosed
    /\ is_running
    /\ stop_client
    /\ UNCHANGED <<quota, sleep_threshold, use_message_database, results, seq,
                   stack, calls, returns, raises, done, inflight, tdClosed>>


\* ------------------------------------------------------------ Handler Registry
\* The keys of _handlers: the two reserved phases (line 169) and an update type.
Phases == {"initializer", "finalizer"}

UpdateTypes == {"updateNewMessage"}

\* the update type of line 609
AuthTypes == {"updateAuthorizationState"}

Keys == Phases \cup UpdateTypes \cup AuthTypes

\* The callables the application registers.
Funcs == {"f", "g"}

\* position: None, or an int.
Positions == {[hasPos |-> FALSE, pos |-> 0]}
                 \cup {[hasPos |-> TRUE, pos |-> p] : p \in 0..MaxPosition}

\* handlers.Handler(func, update_type, filter, position); reg is the identity of
\* the object: the number of the add_handler call that made it.
Handler(func, update_type, filter, position, reg) ==
    [func |-> func, update_type |-> update_type, filter |-> filter,
     hasPos |-> position.hasPos, pos |-> position.pos, reg |-> reg]

\* list.insert(i, x): before index i (0-based); a negative i counts from the end,
\* and i is clamped to the list.
ListInsert(list, i, x) ==
    LET n == Len(list)
        j == IF i < 0 THEN (IF n + i < 0 THEN 0 ELSE n + i)
             ELSE IF i > n THEN n ELSE i
    IN  SubSeq(list, 1, j) \o <<x>> \o SubSeq(list, j + 1, n)

\* key=lambda x: (x.position is None, x.position), compared as Python compares
\* tuples: a < b.
KeyLess(a, b) ==
    \/ a.hasPos /\ ~b.hasPos
    \/ a.hasPos /\ b.hasPos /\ a.pos < b.pos

\* list.sort(key=...): stable, equal keys keep the order they had in the list.
RECURSIVE StableSort(_)
StableSort(list) ==
    IF list = <<>> THEN <<>>
    ELSE LET n == Len(list)
             x == list[n]
             sorted == StableSort(SubSeq(list, 1, n - 1))
             \* x goes after every element that is not greater than it
             k == Cardinality({i \in 1..(n - 1) : ~KeyLess(x, sorted[i])})
         IN  SubSeq(sorted, 1, k) \o <<x>> \o SubSeq(sorted, k + 1, n - 1)

\* line 292 and lines 313-315 left out: the list as insert/append/remove left it
Unsorted(list) == list

\* line 292, lines 313-315
SortHandlers(list) == StableSort(list)

\* add_handler, lines 285-292
add_handler(update_type, func, filter, position) ==
    /\ regCount < MaxHandlers
    /\ LET h == Handler(func, update_type, filter, position, regCount + 1)
           list == handlers[update_type]
           placed == IF position.hasPos
                     THEN ListInsert(list, position.pos, h)
                     ELSE Append(list, h)
       IN  handlers' = [handlers EXCEPT ![update_type] = SortHandlers(placed)]
    /\ keyOrder' = IF update_type \in {keyOrder[i] : i \in 1..Len(keyOrder)}
                   THEN keyOrder ELSE Append(keyOrder, update_type)
    /\ regCount' = regCount + 1
    /\ UNCHANGED lastRemove

\* The first handler with this func, in the order remove_handler looks: the keys
\* in dict order, each list front to back (lines 309-311). <<>> when none.
RECURSIVE FindHandler(_, _)
FindHandler(keys, func) ==
    IF keys = <<>> THEN <<>>
    ELSE LET list == handlers[Head(keys)]
             hits == {i \in 1..Len(list) : list[i].func = func}
         IN  IF hits # {}
             THEN <<Head(keys), CHOOSE i \in hits : \A j \in hits : i <= j>>
             ELSE FindHandler(Tail(keys), func)

\* list.remove taking the last element of the list
RemoveLast(list, i) == SubSeq(list, 1, Len(list) - 1)

\* self._handlers[update_type].remove(handler), line 312
RemoveAt(list, i) == SubSeq(list, 1, i - 1) \o SubSeq(list, i + 1, Len(list))

\* remove_handler, lines 307-317
remove_handler(func) ==
    /\ LET hit == FindHandler(keyOrder, func)
       IN  IF hit # <<>>
           THEN /\ handlers' = [handlers EXCEPT ![hit[1]] =
                                    SortHandlers(RemoveAt(@, hit[2]))]
                /\ lastRemove' = TRUE
           ELSE /\ UNCHANGED handlers
                /\ lastRemove' = FALSE
    /\ UNCHANGED <<keyOrder, regCount>>

RegistryInit ==
    /\ handlers = [k \in Keys |-> <<>>]
    /\ keyOrder = <<"initializer", "finalizer">>
    /\ regCount = 0
    /\ lastRemove = FALSE

\* ------------------------------------------------------------ Chain Executor
\* What the filter of a handler does for the event: there is none, its func
\* returns true, its func returns false, or its func raises an exception.
FilterKinds == {"none", "accept", "reject", "raise"}

\* What a handler's func does when it is called: returns, raises StopHandlers,
\* or raises another exception.
Outcomes == {"ok", "stop", "error"}

\* if update["@type"] in self._handlers, line 683
HasKey(type) == type \in {keyOrder[i] : i \in 1..Len(keyOrder)}

\* the test of lines 686-691 without the sending_state marker
IsOutgoing(e) == e.type = "updateNewMessage" /\ e.is_outgoing /\ ~e.sending_state

\* lines 686-691
IsEcho(e) == e.type = "updateNewMessage" /\ e.is_outgoing /\ e.sending_state

Update(type, is_outgoing, sending_state) ==
    [type |-> type, is_outgoing |-> is_outgoing, sending_state |-> sending_state]

NoUpdate == Update("none", FALSE, FALSE)

\* What is remembered of the chain of the event before: where a StopHandlers
\* was raised in it, and whether another exception was.
NoChain == [stopIn |-> "none", errors |-> FALSE]

\* The worker before its first event. ran, stopIn, stopPos, escaped, errors, prev
\* and snap record what the chain did; the code does not read them.
Idle ==
    [pc |-> "idle", idx |-> 0, update |-> NoUpdate, ran |-> <<>>,
     stopIn |-> "none", stopPos |-> 0, escaped |-> FALSE, errors |-> FALSE,
     prev |-> NoChain, snap |-> [k \in Keys |-> <<>>], n |-> 0]

\* self.workers.submit(self._update_worker, update), line 622
Submit(type, is_outgoing, sending_state) ==
    /\ chain.pc \in {"idle", "done"}
    /\ events < MaxEvents
    /\ is_running
    /\ ~workers_shutdown
    /\ chain' = [Idle EXCEPT !.pc = "start",
                             !.update = Update(type, is_outgoing, sending_state),
                             !.n = events + 1,
                             !.prev = IF chain.pc = "done"
                                      THEN [stopIn |-> chain.stopIn,
                                            errors |-> chain.errors]
                                      ELSE NoChain]
    /\ events' = events + 1

\* _update_worker up to the try of line 693
update_worker ==
    /\ chain.pc = "start"
    /\ chain' = IF is_running /\ HasKey(chain.update.type) /\ ~IsEcho(chain.update)
                THEN [chain EXCEPT !.pc = "pre", !.snap = handlers]
                ELSE [chain EXCEPT !.pc = "done"]
    /\ UNCHANGED events

\* except Exception of a handler loop taken as the end of the loop
Uncontained(c, next) == [c EXCEPT !.pc = next, !.idx = 0, !.errors = TRUE]

\* except Exception: logger.exception(...), lines 636, 652, 667: the exception
\* of a filter or of a func is logged and the for loop goes on with the next
\* handler. next is the phase after the loop.
Contained(c, next) == [c EXCEPT !.idx = @ + 1, !.errors = TRUE]

\* One turn of the for loop of a phase over the list under key: the loop ends
\* (goes to next), the filter rejects, the filter raises, or the func is called.
\* A StopHandlers is raised again (lines 634, 650, 665) and ends the loop; stopTo
\* is where the caller goes on then. Any other exception, of the filter or of
\* the func, is logged and the loop goes on (lines 636, 652, 667).
RunPhase(phase, key, next, stopTo) ==
    /\ chain.pc = phase
    /\ LET list == handlers[key]
       IN  IF chain.idx >= Len(list)
           THEN chain' = [chain EXCEPT !.pc = next, !.idx = 0]
           ELSE LET h == list[chain.idx + 1]
                IN  IF h.filter = "reject"
                    THEN chain' = [chain EXCEPT !.idx = @ + 1]
                    ELSE IF h.filter = "raise"
                    THEN chain' = Contained(chain, next)
                    ELSE \E o \in Outcomes :
                           LET log == Append(chain.ran, [phase |-> phase, reg |-> h.reg])
                           IN  chain' =
                                 IF o = "stop"
                                 THEN [chain EXCEPT
                                         !.pc = stopTo, !.idx = 0, !.ran = log,
                                         !.stopIn = IF phase = "post" \/ @ # "none"
                                                    THEN @ ELSE phase,
                                         !.stopPos = IF phase = "post" \/ chain.stopIn # "none"
                                                     THEN @ ELSE Len(log),
                                         !.escaped = (phase = "post")]
                                 ELSE IF o = "error"
                                 THEN Contained([chain EXCEPT !.ran = log], next)
                                 ELSE [chain EXCEPT !.idx = @ + 1, !.ran = log]
    /\ UNCHANGED events

\* lines 696-697 left out: the StopHandlers of an initializer ends its phase only
run_initializers_then_main == RunPhase("pre", "initializer", "main", "main")

\* __run_initializers, lines 624-637; StopHandlers: lines 696-699
run_initializers == RunPhase("pre", "initializer", "main", "post")

\* __run_handlers, lines 639-653; StopHandlers: lines 696-699
run_handlers == RunPhase("main", chain.update.type, "post", "post")

\* __run_finalizers, lines 655-668; StopHandlers leaves the finally of line 699
run_finalizers == RunPhase("post", "finalizer", "done", "done")

ChainInit ==
    /\ chain = Idle
    /\ events = 0

\* ------------------------------------------------------------ Authorization
AuthStates ==
    {"WaitTdlibParameters", "WaitPhoneNumber", "WaitEmailAddress",
     "WaitEmailCode", "WaitCode", "WaitRegistration", "WaitPassword", "Ready",
     "Closed"}

\* token: not given (the operator is asked), a bot token (it holds a ":"), or a
\* phone number
Tokens == {"none", "bot", "phone"}

\* A task of the pool for the n-th authorization event the Receiver read.
Task(kind, state, n) == [kind |-> kind, state |-> state, n |-> n]

\* No worker is in the authorization handler.
NoTask ==
    [pc |-> "idle", state |-> "None", interactive |-> FALSE, call |-> "none",
     input |-> "none", n |-> 0]

\* The worker waits in invoke for the answer of the call of this step.
Calling(state, interactive, call) ==
    [pc |-> "call", state |-> state, interactive |-> interactive, call |-> call,
     input |-> "none", n |-> task.n]

\* What the operator types at the password prompt, a string as the sequence of
\* its characters, and whether the state says a recovery email address exists
\* (self.__authorization["has_recovery_email_address"]).
PasswordInputs == [entered : {<<>>, <<"p">>}, recovery : BOOLEAN]

\* The password as wait_password holds it, lines 1012-1020: the parentheses
\* with the trailing comma make a tuple of one element, what getpass returned.
Password(entered) == <<entered>>

\* One round of the loop of wait_password, lines 1011-1066: the empty string
\* goes to the recovery (lines 1022-1060), which needs a recovery address;
\* anything else is checked (line 1062).
PasswordCall(input) ==
    LET password == Password(input.entered)
    IN  IF password = <<>>
        THEN IF input.recovery THEN "requestAuthenticationPasswordRecovery"
             ELSE "none"
        ELSE "checkAuthenticationPassword"

\* The dispatch of lines 780-792 without the branch of WaitCode
StepCallNoCode(state, input) ==
    IF state = "WaitTdlibParameters" THEN "setTdlibParameters"
    ELSE IF state = "WaitPhoneNumber"
         THEN IF input = "bot" THEN "checkAuthenticationBotToken"
              ELSE "setAuthenticationPhoneNumber"
    ELSE IF state = "WaitEmailAddress" THEN "setAuthenticationEmailAddress"
    ELSE IF state = "WaitEmailCode" THEN "checkAuthenticationEmailCode"
    ELSE IF state = "WaitRegistration" THEN "registerUser"
    ELSE IF state = "WaitPassword" THEN PasswordCall(input)
    ELSE "none"

\* The call a step of the authorization makes, lines 780-799: set_td_paramaters
\* (line 712), wait_phone_number with the token or with what the operator
\* entered (lines 905-908, 918-921), wait_email_address (line 933),
\* wait_email_code (line 948), wait_code (line 981), wait_registration (line
\* 994), wait_password (line 1062).
StepCall(state, input) ==
    IF state = "WaitTdlibParameters" THEN "setTdlibParameters"
    ELSE IF state = "WaitPhoneNumber"
         THEN IF input = "bot" THEN "checkAuthenticationBotToken"
              ELSE "setAuthenticationPhoneNumber"
    ELSE IF state = "WaitEmailAddress" THEN "setAuthenticationEmailAddress"
    ELSE IF state = "WaitEmailCode" THEN "checkAuthenticationEmailCode"
    ELSE IF state = "WaitRegistration" THEN "registerUser"
    ELSE IF state = "WaitCode" THEN "checkAuthenticationCode"
    ELSE IF state = "WaitPassword" THEN PasswordCall(input)
    ELSE "none"

\* The dispatch of lines 780-799 without the test of the state before
DispatchesAlways(old, state) ==
    state \in {"WaitTdlibParameters", "WaitPhoneNumber", "WaitEmailAddress",
               "WaitEmailCode", "WaitCode", "WaitRegistration", "WaitPassword"}

\* The dispatch of lines 780-799 with the test of the state before inverted
DispatchesInverted(old, state) ==
    \/ state \in {"WaitTdlibParameters", "WaitPhoneNumber", "WaitEmailAddress",
                   "WaitEmailCode", "WaitCode", "WaitRegistration"}
    \/ state = "WaitPassword" /\ old = "WaitPassword"

\* The first statement of a handler of a state: it goes on when
\* self.authorization_state, read again, is the state it handles (lines 895,
\* 957, 1001); wait_email_address goes on when it is not (lines 927-928).
GoesOn(state, recorded) ==
    IF state = "WaitEmailAddress" THEN recorded # state ELSE recorded = state

\* The branch of lines 780-799 taken for the state: every state has its
\* handler, WaitPassword only when the state before was another (lines 795-799).
Dispatches(old, state) ==
    \/ state \in {"WaitTdlibParameters", "WaitPhoneNumber", "WaitEmailAddress",
                   "WaitEmailCode", "WaitCode", "WaitRegistration"}
    \/ state = "WaitPassword" /\ old # "WaitPassword"

\* What wait_phone_number passes on: the token, or what the operator entered.
Inputs(state) ==
    IF state = "WaitPhoneNumber" /\ token = "none" THEN {"bot", "phone"}
    ELSE IF state = "WaitPassword" THEN PasswordInputs
    ELSE {token}

\* Nothing has happened in the authorization flow.
NoAuthLog ==
    [handed |-> 0, recorded |-> 0, handled |-> <<>>, issued |-> <<>>, rejects |-> 0]

\* The engine emits an updateAuthorizationState.
Emit(state) ==
    /\ tdState' = state
    /\ tdEvents' = Append(tdEvents, state)

\* start(), lines 208-218: the Receiver thread is spawned and sets is_running
\* (line 572); with login the main thread goes on into login().
start(login) ==
    /\ mainPc = "idle"
    /\ is_running' = TRUE
    /\ mainPc' = IF login THEN "login" ELSE "started"
    /\ UNCHANGED <<login_requested, authorization_state, is_closing, token, pool,
                   task, tdState, tdEvents, authErrors, workers, authLog, stopper>>
    /\ UNCHANGED <<quota, sleep_threshold, use_message_database,
                   is_authenticated, workers_shutdown, results, seq, stack,
                   calls, returns, raises, done, inflight, tdClosed>>

\* login(), lines 223-228: getOption is the first request the engine gets, and
\* the engine starts the authorization with its first event.
login ==
    /\ mainPc \in {"login", "started"}
    /\ is_running
    /\ ~tdClosed
    /\ IF is_authenticated
       THEN /\ mainPc' = "returned"
            /\ UNCHANGED <<login_requested, tdState, tdEvents>>
       ELSE /\ login_requested' = TRUE
            /\ mainPc' = "poll"
            /\ IF tdState = "None"
               THEN Emit("WaitTdlibParameters")
               ELSE UNCHANGED <<tdState, tdEvents>>
    /\ UNCHANGED <<authorization_state, is_closing, token, pool, task, authErrors,
                   workers, authLog, stopper>>
    /\ UNCHANGED coreVars

\* invoke, lines 343-351, called by the application on a client started without
\* login: the first request the engine gets makes it start the authorization.
\* This application goes on without login().
first_request ==
    /\ mainPc = "started"
    /\ is_running
    /\ ~tdClosed
    /\ tdState = "None"
    /\ Emit("WaitTdlibParameters")
    /\ mainPc' = "requested"
    /\ UNCHANGED <<login_requested, authorization_state, is_closing,
                   token, pool, task, authErrors, workers, authLog, stopper>>
    /\ UNCHANGED coreVars

\* login(), lines 230-236: the loop is left once the recorded state is Ready or
\* Closed; until then the thread sleeps and looks again.
login_poll ==
    /\ mainPc = "poll"
    /\ authorization_state \in {"Ready", "Closed"}
    /\ mainPc' = IF authorization_state = "Ready" /\ is_running
                 THEN "getMe" ELSE "returned"
    /\ UNCHANGED <<login_requested, authorization_state, is_closing, token, pool,
                   task, tdState, tdEvents, authErrors, workers, authLog, stopper>>
    /\ UNCHANGED coreVars

\* login(), lines 238-243: getMe is answered
login_getMe ==
    /\ mainPc = "getMe"
    /\ is_running
    /\ ~tdClosed
    /\ is_authenticated' = TRUE
    /\ mainPc' = "returned"
    /\ authLog' = [authLog EXCEPT !.issued = Append(@, "getMe")]
    /\ UNCHANGED <<login_requested, authorization_state, is_closing, token, pool,
                   task, tdState, tdEvents, authErrors, workers, stopper>>
    /\ UNCHANGED <<quota, sleep_threshold, use_message_database, is_running,
                   workers_shutdown, results, seq, stack, calls, returns,
                   raises, done, inflight, tdClosed>>

\* _process_update for an updateAuthorizationState, lines 609-622: both tasks
\* are submitted. A pool that is shut down refuses the task, the error leaves
\* __listen_loop (lines 581-584).
process_authorization_update ==
    /\ is_running
    /\ tdEvents # <<>>
    /\ tdEvents' = Tail(tdEvents)
    /\ IF workers_shutdown
       THEN /\ is_running' = FALSE
            /\ UNCHANGED pool
       ELSE /\ pool' = pool \o
                       <<Task("authorization", Head(tdEvents), authLog.handed + 1),
                         Task("update", Head(tdEvents), authLog.handed + 1)>>
            /\ UNCHANGED is_running
    /\ authLog' = [authLog EXCEPT !.handed = @ + 1]
    /\ UNCHANGED <<mainPc, login_requested, authorization_state, is_closing,
                   token, task, tdState, authErrors, workers, stopper>>
    /\ UNCHANGED <<quota, sleep_threshold, use_message_database,
                   is_authenticated, workers_shutdown, results, seq, stack,
                   calls, returns, raises, done, inflight, tdClosed>>
    /\ UNCHANGED <<regVars, chainVars, sendVars>>

\* The workers of the pool that are inside a task.
Busy ==
    (IF task.pc = "idle" THEN 0 ELSE 1)
        + (IF chain.pc \in {"idle", "done"} THEN 0 ELSE 1)
        + Cardinality(running)

\* A worker of the pool is free to take the oldest task.
WorkerFree == Busy < workers /\ pool # <<>>

\* A worker takes a __handle_authorization_state task off the queue of the pool.
take_authorization ==
    /\ WorkerFree
    /\ task.pc = "idle"
    /\ Head(pool).kind = "authorization"
    /\ pool' = Tail(pool)
    /\ task' = [NoTask EXCEPT !.pc = "taken", !.state = Head(pool).state,
                              !.n = Head(pool).n]
    /\ UNCHANGED <<mainPc, login_requested, authorization_state, is_closing, token,
                   tdState, tdEvents, authErrors, workers, authLog, stopper>>
    /\ UNCHANGED <<coreVars, regVars, chainVars, sendVars>>

\* The steps that ask the operator, without wait_code
InteractiveNoCode(state) ==
    \/ state = "WaitPhoneNumber" /\ token = "none"
    \/ state \in {"WaitEmailAddress", "WaitEmailCode", "WaitRegistration",
                   "WaitPassword"}

\* The step of the state asks the operator: wait_phone_number without a token
\* (lines 910-916), wait_email_address, wait_email_code, wait_code,
\* wait_registration, wait_password.
Interactive(state) ==
    \/ state = "WaitPhoneNumber" /\ token = "none"
    \/ state \in {"WaitEmailAddress", "WaitEmailCode", "WaitCode",
                   "WaitRegistration", "WaitPassword"}

\* The handler of the state is called and gets as far as its call: login was
\* requested (line 780), the branch is taken, the handler goes on, and the loop
\* of an interactive step is entered (while self.is_running).
Asks(state) ==
    /\ login_requested
    /\ Dispatches(authorization_state, state)
    /\ GoesOn(state, state)
    /\ Interactive(state) => is_running

\* __handle_authorization_state, lines 768-804, up to the call the step makes:
\* set_td_paramaters (lines 703-735), wait_phone_number (lines 894-924),
\* wait_email_address, wait_code or wait_password; Closed runs __stop_client,
\* which cancels the queued tasks.
handle_authorization_state ==
    /\ task.pc = "taken"
    /\ LET state == task.state
           closes == login_requested /\ state = "Closed" /\ ~is_closing
           interactive == Interactive(state)
           asks == Asks(state)
       IN  /\ authorization_state' = state
           /\ \E input \in Inputs(state) :
                 LET call == StepCall(state, input)
                     goes == asks /\ call # "none"
                 IN  /\ task' = IF goes
                                 THEN [Calling(state, interactive, call)
                                          EXCEPT !.input = input]
                                 ELSE NoTask
                     /\ authLog' = [authLog EXCEPT
                                       !.recorded = task.n,
                                       !.handled = Append(@, state),
                                       !.issued = IF goes THEN Append(@, call) ELSE @]
           /\ IF closes
              THEN /\ stop_client
                   /\ pool' = <<>>
              ELSE UNCHANGED <<pool, is_authenticated, is_running, workers_shutdown>>
    /\ UNCHANGED <<mainPc, login_requested, is_closing, token, tdState, tdEvents,
                   authErrors, workers, stopper>>
    /\ UNCHANGED <<quota, sleep_threshold, use_message_database, results, seq,
                   stack, calls, returns, raises, done, inflight, tdClosed>>
    /\ UNCHANGED <<regVars, chainVars, sendVars>>

\* __handle_authorization_state, lines 768-804, run by another worker of the
\* pool while the first is about to run it or waits in the call of its step.
\* A call of its own leaves this worker waiting in invoke as well.
handle_authorization_state_beside ==
    /\ task.pc \in {"taken", "call"}
    /\ WorkerFree
    /\ Head(pool).kind = "authorization"
    /\ LET state == Head(pool).state
           closes == login_requested /\ state = "Closed" /\ ~is_closing
       IN  /\ authorization_state' = state
           /\ \E input \in Inputs(state) :
                 LET call == StepCall(state, input)
                     goes == Asks(state) /\ call # "none"
                 IN  /\ running' = IF goes THEN running \cup {Head(pool)} ELSE running
                     /\ authLog' = [authLog EXCEPT
                                       !.recorded = Head(pool).n,
                                       !.handled = Append(@, state),
                                       !.issued = IF goes THEN Append(@, call) ELSE @]
           /\ IF closes
              THEN /\ stop_client
                   /\ pool' = <<>>
              ELSE /\ pool' = Tail(pool)
                   /\ UNCHANGED <<is_authenticated, is_running, workers_shutdown>>
    /\ UNCHANGED <<mainPc, login_requested, is_closing, token, task, tdState,
                   tdEvents, authErrors, workers, stopper>>
    /\ UNCHANGED <<quota, sleep_threshold, use_message_database, results, seq,
                   stack, calls, returns, raises, done, inflight, tdClosed>>
    /\ UNCHANGED <<regVars, chainVars, sender, table, inbox, receiver, listeners,
                   book>>

\* The worker takes an _update_worker task, lines 670-683.
take_update ==
    /\ WorkerFree
    /\ chain.pc \in {"idle", "done"}
    /\ Head(pool).kind = "update"
    /\ pool' = Tail(pool)
    /\ chain' = IF is_running /\ HasKey("updateAuthorizationState")
                THEN [Idle EXCEPT !.pc = "pre",
                                  !.update = Update("updateAuthorizationState", FALSE, FALSE),
                                  !.n = Head(pool).n,
                                  !.snap = handlers]
                ELSE chain
    /\ UNCHANGED <<mainPc, login_requested, authorization_state, is_closing,
                   token, task, tdState, tdEvents, authErrors, workers, authLog, stopper>>
    /\ UNCHANGED <<coreVars, regVars, events, sendVars>>

\* What the engine goes to when it accepts the call of a step.
Accepted(state, interactive) ==
    IF state = "WaitTdlibParameters" THEN {"WaitPhoneNumber"}
    ELSE IF state = "WaitPhoneNumber"
         THEN IF interactive
              THEN {"WaitCode", "WaitEmailAddress", "WaitEmailCode", "Ready"}
              ELSE IF token = "bot" THEN {"Ready"}
              ELSE {"WaitCode", "WaitEmailAddress", "WaitEmailCode"}
    ELSE IF state = "WaitEmailAddress" THEN {"WaitEmailCode"}
    ELSE IF state = "WaitCode" THEN {"Ready", "WaitRegistration", "WaitPassword"}
    ELSE {"Ready"}

\* The call of the step is answered. Accepted: the engine goes on and the
\* handler returns. Rejected: an interactive step reports it and asks again
\* (lines 897-914), the others raise AuthorizationError (lines 735, 923-924)
\* in the worker, where the Future of the task keeps it.
authorization_answer(ok) ==
    /\ task.pc = "call"
    /\ is_running
    /\ ~tdClosed
    /\ IF ok
       THEN /\ \E next \in Accepted(task.state, task.interactive) : Emit(next)
            /\ task' = NoTask
            /\ UNCHANGED <<authErrors, authLog>>
       ELSE /\ UNCHANGED <<tdState, tdEvents>>
            /\ IF task.interactive
               THEN /\ authLog.rejects < MaxRejects
                    /\ \E input \in Inputs(task.state) :
                          LET call == StepCall(task.state, input)
                          IN  /\ task' = [task EXCEPT !.call = call, !.input = input]
                              /\ authLog' = [authLog EXCEPT
                                                !.issued = Append(@, call),
                                                !.rejects = @ + 1]
                    /\ UNCHANGED authErrors
               ELSE /\ task' = NoTask
                    /\ authErrors' = authErrors + 1
                    /\ UNCHANGED authLog
    /\ UNCHANGED <<mainPc, login_requested, authorization_state, is_closing,
                   token, pool, workers, stopper>>
    /\ UNCHANGED <<coreVars, regVars, chainVars, sendVars>>

\* The WaitPassword events the engine has emitted after the first one.
Repeats ==
    Cardinality({i \in DOMAIN tdEvents : tdEvents[i] = "WaitPassword"})
        + Cardinality({i \in DOMAIN pool : pool[i] = Task("authorization", "WaitPassword", pool[i].n)})
        + Cardinality({i \in DOMAIN authLog.handled : authLog.handled[i] = "WaitPassword"})
        + (IF task.pc = "taken" /\ task.state = "WaitPassword" THEN 1 ELSE 0)
        - 1

\* The engine emits authorizationStateWaitPassword again: the state it awaits
\* the password in has new data (a recovery code was requested). The client
\* has recorded the state before.
td_repeat ==
    /\ tdState = "WaitPassword"
    /\ authorization_state = "WaitPassword"
    /\ ~tdClosed
    /\ Repeats < MaxRepeats
    /\ Emit("WaitPassword")
    /\ UNCHANGED <<mainPc, login_requested, authorization_state, is_closing,
                   token, pool, task, authErrors, workers, authLog, stopper>>
    /\ UNCHANGED <<coreVars, regVars, chainVars, sendVars>>

\* The engine closes and says so.
TdCloseEvent ==
    /\ TdClose
    /\ tdState # "None"
    /\ Emit("Closed")
    /\ UNCHANGED <<mainPc, login_requested, authorization_state, is_closing,
                   token, pool, task, authErrors, workers, authLog, stopper>>
    /\ UNCHANGED <<regVars, chainVars, sendVars>>

\* stop(), lines 473-477: the instance is stopped already
AlreadyStopped == ~is_running /\ authorization_state = "Closed"

\* stop() returning without the loop of lines 485-486
CloseSent == TRUE

\* stop(), line 485: the loop is left once the recorded state is Closed
SeenClosed == authorization_state = "Closed"

\* stop(), lines 463-483: RuntimeError on an instance that is stopped already;
\* otherwise __is_closing is set and close() is sent.
stop ==
    /\ stopper.pc \in {"idle", "returned", "raised"}
    /\ stopper.calls < MaxStops
    /\ IF AlreadyStopped
       THEN /\ stopper' = [stopper EXCEPT !.pc = "raised", !.calls = @ + 1]
            /\ UNCHANGED is_closing
       ELSE /\ stopper' = [stopper EXCEPT !.pc = "close", !.calls = @ + 1]
            /\ is_closing' = TRUE
    /\ UNCHANGED <<mainPc, login_requested, authorization_state, token, pool,
                   task, tdState, tdEvents, authErrors, workers, authLog>>
    /\ UNCHANGED <<coreVars, regVars, chainVars, sendVars>>

\* stop(), line 483: close() is answered by the engine, which closes and says
\* so; the Receiver has to run to hand the answer over.
stop_close ==
    /\ stopper.pc = "close"
    /\ is_running
    /\ TdClose
    /\ Emit("Closed")
    /\ stopper' = [stopper EXCEPT !.pc = "poll"]
    /\ UNCHANGED <<mainPc, login_requested, authorization_state, is_closing,
                   token, pool, task, authErrors, workers, authLog>>
    /\ UNCHANGED <<regVars, chainVars, sendVars>>

\* stop(), lines 485-492: the loop is left, __stop_client runs and cancels the
\* queued tasks, True is returned.
stop_poll ==
    /\ stopper.pc = "poll"
    /\ SeenClosed
    /\ stop_client
    /\ pool' = <<>>
    /\ stopper' = [stopper EXCEPT !.pc = "returned", !.returned = @ + 1]
    /\ UNCHANGED <<mainPc, login_requested, authorization_state, is_closing,
                   token, task, tdState, tdEvents, authErrors, workers, authLog>>
    /\ UNCHANGED <<quota, sleep_threshold, use_message_database, results, seq,
                   stack, calls, returns, raises, done, inflight, tdClosed>>
    /\ UNCHANGED <<regVars, chainVars, sendVars>>

AuthInit ==
    /\ mainPc = "idle"
    /\ login_requested = FALSE
    /\ authorization_state = "None"
    /\ is_closing = FALSE
    /\ pool = <<>>
    /\ task = NoTask
    /\ tdState = "None"
    /\ tdEvents = <<>>
    /\ authErrors = 0
    /\ authLog = NoAuthLog
    /\ stopper = [pc |-> "idle", calls |-> 0, returned |-> 0]

\* ------------------------------------------------------------ Send acknowledgements
\* The threads that send messages, and the ids the engine deals with.
Senders == {1, 2}

ChatIds == {3, 23}

MessageIds == {1, 12}

DigitChars == <<"0", "1", "2", "3", "4", "5", "6", "7", "8", "9">>

\* int.__str__(): the decimal digits, after a minus sign for a negative number
RECURSIVE StrNat(_)
StrNat(n) ==
    IF n < 10 THEN <<DigitChars[n + 1]>>
    ELSE StrNat(n \div 10) \o <<DigitChars[(n % 10) + 1]>>

Str(n) == IF n < 0 THEN <<"-">> \o StrNat(0 - n) ELSE StrNat(n)

\* m_id, lines 816-818, 825-827 and 846-848: the two strings one after the other
CompositeKey(message_id, chat_id) == Str(message_id) \o Str(chat_id)

\* What the engine emits about a message being sent.
Succeeded(m, c) ==
    [type |-> "updateMessageSendSucceeded", old_message_id |-> m, chat_id |-> c,
     error_code |-> 0, retry_after |-> 0]

Failed(m, c, code, retry_after) ==
    [type |-> "updateMessageSendFailed", old_message_id |-> m, chat_id |-> c,
     error_code |-> code, retry_after |-> retry_after]

Acks(m, c) ==
    {Succeeded(m, c), Failed(m, c, 400, 0)}
        \cup {Failed(m, c, 429, n) : n \in 1..MaxRetryAfter}

NoSend ==
    [pc |-> "idle", chat_id |-> 0, message_id |-> 0, key |-> <<>>, res |-> "none",
     acked |-> FALSE]

Polling == [pc |-> "poll", owner |-> 0, chat_id |-> 0, resolved |-> FALSE]

\* self._results[key] = result: a dict holds one value under a key.
Store(tbl, key, owner) ==
    {e \in tbl : e.key # key} \cup {[key |-> key, owner |-> owner]}

InTable(key) == \E e \in table : e.key = key

Owner(key) == (CHOOSE e \in table : e.key = key).owner

\* The messages the engine is sending and has not acknowledged.
Unacked == {s \in Senders : sender[s].pc = "wait" /\ ~sender[s].acked}

\* A thread sends a message to a chat: the engine answers with the message, its
\* provisional id and its sending_state; the entry of the send is stored under
\* the composite key and the thread waits for the acknowledgement.
send_message(s, c, m) ==
    /\ is_running
    /\ receiver.pc = "poll"
    /\ sender[s].pc = "idle"
    /\ \A o \in Senders :
           sender[o].pc = "wait" => <<sender[o].message_id, sender[o].chat_id>> # <<m, c>>
    /\ sender' = [sender EXCEPT ![s] =
                     [pc |-> "wait", chat_id |-> c, message_id |-> m,
                      key |-> CompositeKey(m, c), res |-> "none", acked |-> FALSE]]
    /\ table' = Store(table, CompositeKey(m, c), s)
    /\ UNCHANGED <<inbox, receiver>>

\* The engine acknowledges a message: it was sent, or it failed.
Acknowledge(s) ==
    /\ s \in Unacked
    /\ \E ack \in Acks(sender[s].message_id, sender[s].chat_id) :
          inbox' = Append(inbox, ack)
    /\ sender' = [sender EXCEPT ![s].acked = TRUE]
    /\ UNCHANGED <<table, receiver>>

\* result.set_result(...) on the entry under key: its owner wakes up.
Resolve(key, res) ==
    /\ sender' = [sender EXCEPT ![Owner(key)] = [@ EXCEPT !.pc = "done", !.res = res]]
    /\ table' = {e \in table : e.key # key}

\* __handle_update_message_succeeded, lines 815-822
handle_update_message_succeeded(update) ==
    LET m_id == CompositeKey(update.old_message_id, update.chat_id)
    IN  /\ IF InTable(m_id)
           THEN Resolve(m_id, "message")
           ELSE UNCHANGED <<sender, table>>
        /\ UNCHANGED receiver

\* __handle_update_message_failed, lines 824-857, up to time.sleep: within the
\* threshold the entry is popped and the Receiver thread itself sleeps; above
\* the threshold nothing is done; another error resolves the entry.
handle_update_message_failed(update) ==
    LET m_id == CompositeKey(update.old_message_id, update.chat_id)
    IN  IF ~InTable(m_id)
        THEN UNCHANGED <<sender, table, receiver>>
        ELSE IF update.error_code = 429
        THEN IF update.retry_after <= sleep_threshold
             THEN /\ table' = {e \in table : e.key # m_id}
                  /\ receiver' = [pc |-> "sleep", owner |-> Owner(m_id),
                                  chat_id |-> update.chat_id, resolved |-> FALSE]
                  /\ UNCHANGED sender
             ELSE UNCHANGED <<sender, table, receiver>>
        ELSE /\ Resolve(m_id, "error")
             /\ UNCHANGED receiver

\* ------------------------------------------------------------ Dispatcher
\* A message is a record with the fields of the JSON object: "type" stands for
\* "@type", "extra" for "@extra".
HasType(update) == "type" \in DOMAIN update

HasExtra(update) == "extra" \in DOMAIN update

\* Connection states, an option and its values, users.
ConnectionStates == {"connectionStateReady"}

OptionValues ==
    {[type |-> "optionValueEmpty"],
     [type |-> "optionValueInteger", value |-> <<"1", "2">>]}

Self == [id |-> 1, first_name |-> "a"]

Users == {[id |-> 1, first_name |-> "b"], [id |-> 2, first_name |-> "c"]}

\* What the engine pushes without being asked.
Events ==
    {[type |-> "updateConnectionState", state |-> [type |-> c]] : c \in ConnectionStates}
        \cup {[type |-> "updateOption", name |-> "version", value |-> v] : v \in OptionValues}
        \cup {[type |-> "updateUser", user |-> u] : u \in Users}
        \cup {[type |-> "updateNewMessage"]}
        \cup {[type |-> "updateAuthorizationState",
                authorization_state |-> [type |-> "authorizationStateReady"]]}

\* A message with "@extra": the answer to a call, or to the setOption of
\* _set_options (line 763), whose id is "" (here <<0, 0>>).
Answer(payload, id) == payload @@ [extra |-> [id |-> id]]

OptionAnswers ==
    {p @@ [extra |-> [id |-> <<0, 0>>, option |-> "version"]] : p \in {OkPayload, OtherError}}

\* A message the client cannot read: no "@type".
Unreadable == [client_id |-> 1]

\* Events that lack the field their in-line bookkeeping reads.
Truncated == {[type |-> "updateConnectionState"], [type |-> "updateUser"]}

\* The event the Receiver was handling when it blocked.
NoEvent == [type |-> "none"]

\* connection_state, options and me after __init__ (lines 161-165); me after
\* login() is the answer of getMe (line 242).
NoBook == [connection_state |-> "None", options |-> <<>>, me |-> [id |-> 0]]

\* int(s) for a string of decimal digits
RECURSIVE ParseNat(_)
ParseNat(digits) ==
    IF digits = <<>> THEN 0
    ELSE LET n == Len(digits)
             d == CHOOSE i \in 0..9 : DigitChars[i + 1] = digits[n]
         IN  10 * ParseNat(SubSeq(digits, 1, n - 1)) + d

\* __handle_update_option, lines 861-868: the value stored for the option
OptionValue(value) ==
    IF value.type = "optionValueBoolean" THEN [kind |-> "bool", v |-> value.value]
    ELSE IF value.type = "optionValueEmpty" THEN [kind |-> "None"]
    ELSE IF value.type = "optionValueInteger"
         THEN [kind |-> "int", v |-> ParseNat(value.value)]
    ELSE [kind |-> "str", v |-> value.value]

\* __handle_connection_state, lines 806-813
handle_connection_state(update) ==
    book' = [book EXCEPT !.connection_state = update.state.type]

\* __handle_update_option, lines 859-876: options is a dict with one key here
handle_update_option(update) ==
    book' = [book EXCEPT !.options = <<OptionValue(update.value)>>]

\* __handle_update_user, lines 878-892
handle_update_user(update) ==
    IF is_authenticated /\ update.user.id = book.me.id
    THEN book' = [book EXCEPT !.me = update.user]
    ELSE UNCHANGED book

\* update[...] on a key the message does not have, in the in-line bookkeeping:
\* update["state"] (line 808), update["value"] (line 861), update["user"] (line
\* 879, read only when is_authenticated holds), update["old_message_id"] (lines
\* 816 and 825). Nothing between the handler and __listen_loop catches the
\* KeyError.
KeyError(update) ==
    \/ update.type = "updateConnectionState" /\ "state" \notin DOMAIN update
    \/ update.type = "updateOption" /\ "value" \notin DOMAIN update
    \/ update.type = "updateUser" /\ is_authenticated /\ "user" \notin DOMAIN update
    \/ /\ update.type \in {"updateMessageSendSucceeded", "updateMessageSendFailed"}
       /\ "old_message_id" \notin DOMAIN update

\* self.workers.submit(...), lines 610 and 622: the tasks go to the queue of the
\* pool; a pool that is shut down raises RuntimeError, which leaves
\* __listen_loop (lines 581-584).
Submit_update_worker(first, update) ==
    IF workers_shutdown
    THEN /\ is_running' = FALSE
         /\ UNCHANGED <<pool, events>>
    ELSE /\ pool' = pool \o first \o <<Task("update", update, events + 1)>>
         /\ events' = events + 1
         /\ UNCHANGED is_running

\* _process_update, lines 586-622, for the message the Receiver has read. An
\* exception raised in it leaves the while loop of __listen_loop, whose except
\* clause is outside the loop (lines 581-584): is_running is written False.
process_update(update) ==
    IF ~HasType(update)
    THEN UNCHANGED <<results, stack, sender, table, receiver, book, pool, events,
                     is_running>>
    ELSE IF HasExtra(update)
    THEN /\ IF Registered(update.extra.id) # {}
            THEN process_response(update.extra.id,
                                  Payload(update.type, update.code, update.message), 0)
            ELSE IF update.type = "error" /\ "option" \in DOMAIN update.extra
            THEN UNCHANGED <<results, stack>>
            ELSE UNCHANGED <<results, stack>>
         /\ UNCHANGED <<sender, table, receiver, book, pool, events, is_running>>
    ELSE IF KeyError(update)
    THEN /\ is_running' = FALSE
         /\ UNCHANGED <<results, stack, sender, table, receiver, book, pool, events>>
    ELSE /\ IF update.type = "updateMessageSendSucceeded"
            THEN handle_update_message_succeeded(update) /\ UNCHANGED book
            ELSE IF update.type = "updateMessageSendFailed"
            THEN handle_update_message_failed(update) /\ UNCHANGED book
            ELSE IF update.type = "updateConnectionState"
            THEN handle_connection_state(update) /\ UNCHANGED <<sender, table, receiver>>
            ELSE IF update.type = "updateOption"
            THEN handle_update_option(update) /\ UNCHANGED <<sender, table, receiver>>
            ELSE IF update.type = "updateUser"
            THEN handle_update_user(update) /\ UNCHANGED <<sender, table, receiver>>
            ELSE UNCHANGED <<sender, table, receiver, book>>
         /\ IF receiver'.pc = "poll"
            THEN Submit_update_worker(
                     IF update.type = "updateAuthorizationState"
                     THEN <<Task("authorization", update.authorization_state.type,
                                 events + 1)>>
                     ELSE <<>>,
                     update)
            ELSE UNCHANGED <<pool, events, is_running>>
         /\ UNCHANGED <<results, stack>>

\* __listen_loop, lines 570-584, with _process_update for the message read.
\* Polling, the thread reads the next message of the engine.
\* Inside __handle_update_message_failed it sleeps, then calls invoke (line 845)
\* and waits in result.wait() for an answer that only this thread could read;
\* had it the answer, it would store the entry under the key of the new message
\* (lines 846-849) and go back to polling.
listen_loop ==
    /\ is_running
    /\ IF receiver.pc = "poll"
       THEN /\ inbox # <<>>
            /\ inbox' = Tail(inbox)
            /\ process_update(Head(inbox))
       ELSE IF receiver.pc = "sleep"
       THEN /\ receiver' = [receiver EXCEPT !.pc = "wait"]
            /\ UNCHANGED <<sender, table, inbox, book, results, stack, pool,
                           events, is_running>>
       ELSE /\ receiver.resolved
            /\ \E m \in MessageIds :
                  table' = Store(table, CompositeKey(m, receiver.chat_id), receiver.owner)
            /\ receiver' = Polling
            /\ Submit_update_worker(<<>>, NoEvent)
            /\ UNCHANGED <<sender, inbox, book, results, stack>>
    /\ UNCHANGED <<quota, sleep_threshold, use_message_database, is_authenticated,
                   workers_shutdown, seq, calls, returns, raises, done, inflight,
                   tdClosed>>
    /\ UNCHANGED <<mainPc, login_requested, authorization_state, is_closing,
                   token, task, tdState, tdEvents, authErrors, workers, authLog,
                   stopper>>
    /\ UNCHANGED <<regVars, chain, listeners, running>>

\* ------------------------------------------------------------ Receiver threads
\* The threads inside the while loop of line 575.
Looping == {i \in 1..Len(listeners) : listeners[i] = "loop"}

\* start(login=False), lines 208-214: with is_running false a thread is spawned
\* for __listen_loop; the flag is not written here.
start_thread ==
    /\ Len(listeners) < MaxStarts
    /\ ~is_running
    /\ listeners' = Append(listeners, "spawned")
    /\ UNCHANGED <<sender, table, inbox, receiver, book, running>>
    /\ UNCHANGED <<coreVars, regVars, chainVars, authVars>>

\* __listen_loop, lines 571-573: the spawned thread sets is_running and enters
\* the loop.
listen_loop_enter(i) ==
    /\ listeners[i] = "spawned"
    /\ listeners' = [listeners EXCEPT ![i] = "loop"]
    /\ is_running' = TRUE
    /\ UNCHANGED <<sender, table, inbox, receiver, book, running>>
    /\ UNCHANGED <<quota, sleep_threshold, use_message_database,
                   is_authenticated, workers_shutdown, results, seq, stack,
                   calls, returns, raises, done, inflight, tdClosed>>
    /\ UNCHANGED <<regVars, chainVars, authVars>>

\* __listen_loop, lines 575 and 581-584: __receive has returned and the thread
\* finds is_running false (or an exception has left the loop); it leaves, and
\* the finally clause writes is_running.
listen_loop_exit(i) ==
    /\ listeners[i] = "loop"
    /\ ~is_running
    /\ listeners' = [listeners EXCEPT ![i] = "exited"]
    /\ is_running' = FALSE
    /\ UNCHANGED <<sender, table, inbox, receiver, book, running>>
    /\ UNCHANGED <<quota, sleep_threshold, use_message_database,
                   is_authenticated, workers_shutdown, results, seq, stack,
                   calls, returns, raises, done, inflight, tdClosed>>
    /\ UNCHANGED <<regVars, chainVars, authVars>>

SendInit ==
    /\ sender = [s \in Senders |-> NoSend]
    /\ table = {}
    /\ inbox = <<>>
    /\ receiver = Polling
    /\ listeners = <<>>
    /\ book = NoBook
    /\ running = {}

\* ------------------------------------------------------------ Spec
ThreadStep(t) ==
    \/ \E chat \in BOOLEAN, msg \in BOOLEAN : (msg => chat) /\ Invoke(t, chat, msg)
    \/ Resume(t)

Config ==
    /\ sleep_threshold \in DefaultSleepThreshold..MaxThreshold
    /\ use_message_database \in BOOLEAN

CoreInit(q) ==
    /\ is_running = FALSE
    /\ is_authenticated = FALSE
    /\ workers_shutdown = FALSE
    /\ results = {}
    /\ seq = [t \in Threads |-> 0]
    /\ stack = [t \in Threads |-> <<>>]
    /\ quota = q
    /\ calls = [t \in Threads |-> 0]
    /\ returns = [t \in Threads |-> 0]
    /\ raises = [t \in Threads |-> 0]
    /\ done = [t \in Threads |-> NoFin]
    /\ inflight = {}
    /\ tdClosed = FALSE

\* Every thread issues calls.
Init ==
    /\ Config
    /\ CoreInit([t \in Threads |-> MaxCalls])
    /\ RegistryInit
    /\ ChainInit
    /\ AuthInit
    /\ SendInit
    /\ token = "bot"
    /\ workers = DefaultWorkers

\* One thread issues calls.
InitSolo ==
    /\ Config
    /\ CoreInit([t \in Threads |-> IF t = 1 THEN MaxCalls ELSE 0])
    /\ RegistryInit
    /\ ChainInit
    /\ AuthInit
    /\ SendInit
    /\ token = "bot"
    /\ workers = DefaultWorkers

Caller(t) == ThreadStep(t) /\ UNCHANGED <<regVars, chainVars, authVars, sendVars>>

Receiver == Respond /\ UNCHANGED <<regVars, chainVars, authVars, sendVars>>

Next ==
    \/ start(FALSE) /\ UNCHANGED <<regVars, chainVars, sendVars>>
    \/ \E t \in Threads : Caller(t)
    \/ Receiver
    \/ Duplicate /\ UNCHANGED <<regVars, chainVars, authVars, sendVars>>
    \/ TdClose /\ UNCHANGED <<regVars, chainVars, authVars, sendVars>>
    \/ StopOnClosed /\ UNCHANGED <<regVars, chainVars, authVars, sendVars>>

Spec == Init /\ [][Next]_vars

SpecSolo == InitSolo /\ [][Next]_vars

\* Two threads issue calls, the second of them a single one, on a client with
\* the default sleep_threshold and the message database in use.
InitPair ==
    /\ sleep_threshold = DefaultSleepThreshold
    /\ use_message_database = TRUE
    /\ CoreInit([t \in Threads |-> IF t = 1 THEN MaxCalls ELSE 1])
    /\ RegistryInit
    /\ ChainInit
    /\ AuthInit
    /\ SendInit
    /\ token = "bot"
    /\ workers = DefaultWorkers

SpecPair == InitPair /\ [][Next]_vars

\* The threads are scheduled: an issuing thread that can go on does, and the
\* Receiver reads every answer the engine produces.
FairSpec ==
    /\ Spec
    /\ \A t \in Threads : WF_vars(Caller(t))
    /\ WF_vars(Receiver)

\* What the application registers: one callable for two keys, and two callables
\* for one key.
Registrations ==
    {<<"initializer", "f">>, <<"updateNewMessage", "f">>, <<"updateNewMessage", "g">>}

\* The registry alone: the application adds and removes handlers.
InitRegistry ==
    /\ sleep_threshold = DefaultSleepThreshold
    /\ use_message_database = TRUE
    /\ CoreInit([t \in Threads |-> 0])
    /\ RegistryInit
    /\ ChainInit
    /\ AuthInit
    /\ SendInit
    /\ token = "bot"
    /\ workers = DefaultWorkers

NextRegistry ==
    \/ \E r \in Registrations, p \in Positions :
          add_handler(r[1], r[2], "none", p)
              /\ UNCHANGED <<coreVars, chainVars, authVars, sendVars>>
    \/ \E f \in Funcs :
          remove_handler(f) /\ UNCHANGED <<coreVars, chainVars, authVars, sendVars>>

SpecRegistry == InitRegistry /\ [][NextRegistry]_vars

\* What a decorator is applied as: as a method of a Client, as a method of a
\* Filter, or as the plain function of the class with its binding deferred.
BindingModes == {"client", "filter", "unbound"}

\* Decorators.initializer, decorators.py lines 35-42: the update type the
\* handler is made with, by the branch taken.
initializer(mode) ==
    IF mode = "client" THEN "initializer"
    ELSE IF mode = "filter" THEN "initializer"
    ELSE "initializer"

\* Decorators.finalizer, decorators.py lines 66-72
finalizer(mode) ==
    IF mode = "client" THEN "finalizer"
    ELSE IF mode = "filter" THEN "initializer"
    ELSE "finalizer"

\* The application's functions and the decorator each one carries.
DecoratedBy(func) == IF func = "f" THEN "initializer" ELSE "finalizer"

\* A decorated function gets into the registry: at once when the decorator is
\* bound to a Client (decorators.py lines 37-38, 68-69); otherwise the
\* decorator leaves a Handler in func._handler (lines 39-42, 70-72) and
\* _load_plugins, which imported the module, registers it under the update
\* type that Handler holds (client.py lines 550-558). Bound to a Filter, the
\* predicate is that Filter.
decorate(func, mode, filter, position) ==
    /\ mode = "filter" => filter # "none"
    /\ LET update_type == IF DecoratedBy(func) = "initializer"
                          THEN initializer(mode) ELSE finalizer(mode)
       IN  add_handler(update_type, func, filter, position)

\* The decorators alone: the application's modules are loaded.
NextDecorators ==
    \E func \in Funcs, mode \in BindingModes, fl \in {"none", "accept"} :
        decorate(func, mode, fl, [hasPos |-> FALSE, pos |-> 0])
            /\ UNCHANGED <<coreVars, chainVars, authVars, sendVars>>

SpecDecorators == InitRegistry /\ [][NextDecorators]_vars

\* The keys of the chain of an event, and the order the application registers
\* in: its initializers, its handlers, its finalizers.
ChainKeys == Phases \cup UpdateTypes

KeyRank(k) == IF k = "initializer" THEN 1 ELSE IF k = "finalizer" THEN 3 ELSE 2

\* The chain executor: the application registers its handlers and starts the
\* client, the Receiver submits events and a worker runs their chains.
NextChain ==
    \/ \E k \in ChainKeys, fl \in FilterKinds :
          /\ mainPc = "idle"
          /\ regCount < MaxChainHandlers
          /\ \A later \in ChainKeys :
                 KeyRank(later) > KeyRank(k) => handlers[later] = <<>>
          /\ add_handler(k, "f", fl, [hasPos |-> FALSE, pos |-> 0])
          /\ UNCHANGED <<coreVars, chainVars, authVars, sendVars>>
    \/ start(FALSE) /\ UNCHANGED <<regVars, chainVars, sendVars>>
    \/ \E type \in UpdateTypes, out \in BOOLEAN, st \in BOOLEAN :
          Submit(type, out, st) /\ UNCHANGED <<coreVars, regVars, authVars, sendVars>>
    \/ update_worker /\ UNCHANGED <<coreVars, regVars, authVars, sendVars>>
    \/ run_initializers /\ UNCHANGED <<coreVars, regVars, authVars, sendVars>>
    \/ run_handlers /\ UNCHANGED <<coreVars, regVars, authVars, sendVars>>
    \/ run_finalizers /\ UNCHANGED <<coreVars, regVars, authVars, sendVars>>

SpecChain == InitRegistry /\ [][NextChain]_vars

\* The registry changes under a running chain: the application registers "f"
\* for every phase before it starts the client, and while a worker runs the
\* chain of the first event another thread adds "g", at the end or at the front of a
\* list, or removes a handler.
NextRace ==
    \/ \E k \in ChainKeys :
          /\ mainPc = "idle"
          /\ handlers[k] = <<>>
          /\ \A later \in ChainKeys :
                 KeyRank(later) > KeyRank(k) => handlers[later] = <<>>
          /\ add_handler(k, "f", "none", [hasPos |-> FALSE, pos |-> 0])
          /\ UNCHANGED <<coreVars, chainVars, authVars, sendVars>>
    \/ start(FALSE) /\ UNCHANGED <<regVars, chainVars, sendVars>>
    \/ \E type \in UpdateTypes :
          /\ events = 0
          /\ Submit(type, FALSE, FALSE)
          /\ UNCHANGED <<coreVars, regVars, authVars, sendVars>>
    \/ update_worker /\ UNCHANGED <<coreVars, regVars, authVars, sendVars>>
    \/ run_initializers /\ UNCHANGED <<coreVars, regVars, authVars, sendVars>>
    \/ run_handlers /\ UNCHANGED <<coreVars, regVars, authVars, sendVars>>
    \/ run_finalizers /\ UNCHANGED <<coreVars, regVars, authVars, sendVars>>
    \/ \E k \in ChainKeys, front \in BOOLEAN :
          /\ chain.pc \in {"pre", "main", "post"}
          /\ add_handler(k, "g", "none", [hasPos |-> front, pos |-> 0])
          /\ UNCHANGED <<coreVars, chainVars, authVars, sendVars>>
    \/ \E func \in Funcs :
          /\ chain.pc \in {"pre", "main", "post"}
          /\ remove_handler(func)
          /\ UNCHANGED <<coreVars, chainVars, authVars, sendVars>>

SpecRace == InitRegistry /\ [][NextRace]_vars

\* Sending messages: threads send, the engine acknowledges, the Receiver reads
\* the acknowledgements.
InitSend ==
    /\ Config
    /\ CoreInit([t \in Threads |-> 0])
    /\ RegistryInit
    /\ ChainInit
    /\ AuthInit
    /\ SendInit
    /\ token = "bot"
    /\ workers = DefaultWorkers

NextSend ==
    \/ start(FALSE) /\ UNCHANGED <<regVars, chainVars, sendVars>>
    \/ \E s \in Senders, c \in ChatIds, m \in MessageIds :
          send_message(s, c, m)
              /\ UNCHANGED <<coreVars, regVars, chainVars, authVars, listeners, book, running>>
    \/ \E s \in Senders :
          Acknowledge(s)
              /\ UNCHANGED <<coreVars, regVars, chainVars, authVars, listeners, book, running>>
    \/ listen_loop

SpecSend == InitSend /\ [][NextSend]_vars

\* The Receiver thread is scheduled.
FairSpecSend == SpecSend /\ WF_vars(listen_loop)

\* The engine answers a call: the answer waits to be read.
td_answer ==
    /\ Len(inbox) < MaxEvents
    /\ \E m \in inflight, p \in {OkPayload, OtherError} :
          /\ inbox' = Append(inbox, Answer(p, m.id))
          /\ inflight' = inflight \ {m}
    /\ UNCHANGED <<quota, sleep_threshold, use_message_database, is_running,
                   is_authenticated, workers_shutdown, results, seq, stack,
                   calls, returns, raises, done, tdClosed>>
    /\ UNCHANGED <<sender, table, receiver, listeners, book, running>>
    /\ UNCHANGED <<regVars, chainVars, authVars>>

\* What the engine may send besides the answer to a call in flight: an event,
\* the answer to a setOption, an answer a second time, a message without type,
\* an event that lacks a field.
Inbound == Events \cup OptionAnswers \cup {Unreadable} \cup Truncated
               \cup {Answer(p, id) : p \in {OkPayload, OtherError}, id \in Answered}

td_send ==
    /\ events + Len(inbox) < MaxEvents
    /\ \E update \in Inbound : inbox' = Append(inbox, update)
    /\ UNCHANGED <<sender, table, receiver, listeners, book, running>>
    /\ UNCHANGED <<coreVars, regVars, chainVars, authVars>>

\* The dispatcher of a client that has been started, logged in (me is the
\* answer of getMe) or not: a thread issues calls and sends a message, the
\* engine answers and pushes events, the Receiver reads.
InitDispatch ==
    /\ sleep_threshold \in DefaultSleepThreshold..MaxThreshold
    /\ use_message_database = TRUE
    /\ is_running = TRUE
    /\ is_authenticated \in BOOLEAN
    /\ workers_shutdown = FALSE
    /\ results = {}
    /\ seq = [t \in Threads |-> 0]
    /\ stack = [t \in Threads |-> <<>>]
    /\ quota = [t \in Threads |-> IF t = 1 THEN MaxCalls ELSE 0]
    /\ calls = [t \in Threads |-> 0]
    /\ returns = [t \in Threads |-> 0]
    /\ raises = [t \in Threads |-> 0]
    /\ done = [t \in Threads |-> NoFin]
    /\ inflight = {}
    /\ tdClosed = FALSE
    /\ RegistryInit
    /\ ChainInit
    /\ mainPc = IF is_authenticated THEN "returned" ELSE "started"
    /\ login_requested = is_authenticated
    /\ authorization_state = IF is_authenticated THEN "Ready" ELSE "None"
    /\ is_closing = FALSE
    /\ pool = <<>>
    /\ task = NoTask
    /\ tdState = authorization_state
    /\ tdEvents = <<>>
    /\ authErrors = 0
    /\ authLog = NoAuthLog
    /\ stopper = [pc |-> "idle", calls |-> 0, returned |-> 0]
    /\ token = "bot"
    /\ workers = DefaultWorkers
    /\ sender = [s \in Senders |-> NoSend]
    /\ table = {}
    /\ inbox = <<>>
    /\ receiver = Polling
    /\ listeners = <<"loop">>
    /\ book = IF is_authenticated THEN [NoBook EXCEPT !.me = Self] ELSE NoBook
    /\ running = {}

NextDispatch ==
    \/ \E t \in Threads :
          Invoke(t, FALSE, FALSE) /\ UNCHANGED <<regVars, chainVars, authVars, sendVars>>
    \/ td_answer
    \/ td_send
    \/ \E c \in ChatIds :
          send_message(1, c, 1)
              /\ UNCHANGED <<coreVars, regVars, chainVars, authVars, listeners, book, running>>
    \/ Acknowledge(1)
           /\ UNCHANGED <<coreVars, regVars, chainVars, authVars, listeners, book, running>>
    \/ listen_loop

SpecDispatch == InitDispatch /\ [][NextDispatch]_vars

\* The Receiver thread is scheduled.
FairSpecDispatch == SpecDispatch /\ WF_vars(listen_loop)

\* ThreadPoolExecutor: a free worker takes the oldest task off the queue.
worker_take ==
    /\ pool # <<>>
    /\ Cardinality(running) < workers
    /\ pool' = Tail(pool)
    /\ running' = running \cup {Head(pool)}
    /\ UNCHANGED <<mainPc, login_requested, authorization_state, is_closing, token,
                   task, tdState, tdEvents, authErrors, workers, authLog, stopper>>
    /\ UNCHANGED <<sender, table, inbox, receiver, listeners, book>>
    /\ UNCHANGED <<coreVars, regVars, chainVars>>

\* A worker runs the task it took. __handle_authorization_state with login not
\* requested, lines 768-780: the state of the event is recorded and nothing
\* else is done. _update_worker, lines 670-701, with no handler registered.
worker_run(t) ==
    /\ t \in running
    /\ ~login_requested
    /\ running' = running \ {t}
    /\ IF t.kind = "authorization"
       THEN /\ authorization_state' = t.state
            /\ authLog' = [authLog EXCEPT !.recorded = t.n,
                                          !.handled = Append(@, t.state)]
       ELSE UNCHANGED <<authorization_state, authLog>>
    /\ UNCHANGED <<mainPc, login_requested, is_closing, token, pool, task,
                   tdState, tdEvents, authErrors, workers, stopper>>
    /\ UNCHANGED <<sender, table, inbox, receiver, listeners, book>>
    /\ UNCHANGED <<coreVars, regVars, chainVars>>

\* The application, which does not use login(), takes the authorization one
\* state further with a request of its own.
td_advance ==
    /\ is_running
    /\ ~tdClosed
    /\ mainPc = "requested"
    /\ tdState \in {"WaitTdlibParameters", "WaitPhoneNumber"}
    /\ authLog.handed + Len(tdEvents) < MaxEvents
    /\ Emit(IF tdState = "WaitTdlibParameters" THEN "WaitPhoneNumber" ELSE "Ready")
    /\ UNCHANGED <<mainPc, login_requested, authorization_state, is_closing,
                   token, pool, task, authErrors, workers, authLog, stopper>>
    /\ UNCHANGED <<coreVars, regVars, chainVars, sendVars>>

\* The order of the authorization bookkeeping: a client started without login,
\* the engine emits authorization events, the Receiver hands them to the pool
\* and the workers run the tasks.
InitOrder ==
    /\ sleep_threshold = DefaultSleepThreshold
    /\ use_message_database = TRUE
    /\ CoreInit([t \in Threads |-> 0])
    /\ RegistryInit
    /\ ChainInit
    /\ AuthInit
    /\ SendInit
    /\ token = "bot"
    /\ workers \in PoolSizes

NextOrder ==
    \/ start(FALSE) /\ UNCHANGED <<regVars, chainVars, sendVars>>
    \/ first_request /\ UNCHANGED <<regVars, chainVars, sendVars>>
    \/ td_advance
    \/ TdCloseEvent
    \/ process_authorization_update
    \/ worker_take
    \/ \E t \in running : worker_run(t)

SpecOrder == InitOrder /\ [][NextOrder]_vars

\* The Receiver threads: the application calls start(login=False) and stop(),
\* each thread spawned runs __listen_loop, and a thread in its loop hands the
\* authorization events to the pool.
NextStart ==
    \/ start_thread
    \/ \E i \in 1..Len(listeners) : listen_loop_enter(i)
    \/ \E i \in 1..Len(listeners) : listen_loop_exit(i)
    \/ Looping # {} /\ process_authorization_update
    \/ take_authorization
    \/ handle_authorization_state
    \/ take_update
    \/ stop
    \/ Looping # {} /\ stop_close
    \/ stop_poll

SpecStart == InitRegistry /\ [][NextStart]_vars

\* The authorization flow: the application starts the client and logs in, with
\* or without a token.
InitAuth ==
    /\ Config
    /\ CoreInit([t \in Threads |-> 0])
    /\ RegistryInit
    /\ ChainInit
    /\ AuthInit
    /\ SendInit
    /\ token \in Tokens
    /\ workers \in PoolSizes

MainThread ==
    \/ \E l \in BOOLEAN : start(l) /\ UNCHANGED <<regVars, chainVars, sendVars>>
    \/ login /\ UNCHANGED <<regVars, chainVars, sendVars>>
    \/ login_poll /\ UNCHANGED <<regVars, chainVars, sendVars>>
    \/ login_getMe /\ UNCHANGED <<regVars, chainVars, sendVars>>
    \/ first_request /\ UNCHANGED <<regVars, chainVars, sendVars>>

\* The application registers a handler for the authorization events before it
\* starts the client.
Application ==
    /\ mainPc = "idle"
    /\ \A k \in AuthTypes : handlers[k] = <<>>
    /\ \E k \in AuthTypes : add_handler(k, "f", "none", [hasPos |-> FALSE, pos |-> 0])
    /\ UNCHANGED <<coreVars, chainVars, authVars, sendVars>>

Worker ==
    \/ take_authorization
    \/ handle_authorization_state
    \/ take_update
    \/ \E ok \in BOOLEAN : authorization_answer(ok)
    \/ run_initializers /\ UNCHANGED <<coreVars, regVars, authVars, sendVars>>
    \/ run_handlers /\ UNCHANGED <<coreVars, regVars, authVars, sendVars>>
    \/ run_finalizers /\ UNCHANGED <<coreVars, regVars, authVars, sendVars>>

\* stop() is called by the application or by a signal handler (lines 1075-1086).
Stopper ==
    \/ stop
    \/ stop_close
    \/ stop_poll

NextAuth ==
    \/ Application
    \/ MainThread
    \/ Stopper
    \/ process_authorization_update
    \/ Worker
    \/ TdCloseEvent

SpecAuth == InitAuth /\ [][NextAuth]_vars

\* The threads are scheduled, and the engine answers the calls it gets.
FairSpecAuth ==
    /\ SpecAuth
    /\ WF_vars(MainThread)
    /\ WF_vars(process_authorization_update)
    /\ WF_vars(Worker)

\* The prompts of the authorization flow: the pool runs the authorization
\* handler on every worker it has, the engine asks for an email address or a
\* password and emits WaitPassword again while it awaits the password. No
\* handler is registered and stop() is not called.
NextPrompt ==
    \/ MainThread
    \/ process_authorization_update
    \/ take_authorization
    \/ handle_authorization_state
    \/ handle_authorization_state_beside
    \/ take_update
    \/ \E ok \in BOOLEAN : authorization_answer(ok)
    \/ td_repeat
    \/ TdCloseEvent

SpecPrompt == InitAuth /\ [][NextPrompt]_vars

\* ------------------------------------------------------------ claims on invoke
IsRateLimit(r) == is_error(r) /\ r.code = 429

WithinThreshold(r) == get_retry_after_time(r.message) <= sleep_threshold

\* The thread is inside invoke, in result.wait(), and its Result is unresolved.
Blocked(t) == stack[t] # <<>> /\ ~Top(stack[t]).processed

\* C1: every issued call is delivered exactly one outcome: whenever a thread is
\* not inside invoke, as many of its calls have returned as it has issued, and
\* every registered Result belongs to a frame that is waiting on it.
C1_ExactlyOneOutcome ==
    /\ \A t \in Threads : stack[t] = <<>> => returns[t] = calls[t]
    /\ \A e \in results :
          /\ e.d = Len(stack[e.t])
          /\ stack[e.t][e.d].id = e.id
          /\ ~stack[e.t][e.d].processed

\* C2: once the client has stopped, every thread blocked inside invoke is
\* eventually woken.
C2_BlockedCallersWoken ==
    [](~is_running => <>(\A t \in Threads : ~Blocked(t)))

\* C4: a call whose first outcome is a 429 with retry after N <= sleep_threshold
\* is sent again exactly once, and what invoke returns is the answer to that
\* second send.
C4_RateLimitRetriedOnce ==
    \A t \in Threads :
        /\ \A i \in 1..Len(stack[t]) :
              LET f == stack[t][i]
              IN  /\ f.sends <= 2
                  /\ (IsRateLimit(f.first) /\ WithinThreshold(f.first))
                        => f.sends = 2
        /\ ( /\ done[t].how = "returned"
             /\ IsRateLimit(done[t].first)
             /\ WithinThreshold(done[t].first) )
           => (done[t].sends = 2 /\ done[t].att = 2)

\* A call answered 429 retry after 1, sent again, answered 429 again, returned.
C4_Witness ==
    \E t \in Threads :
        /\ done[t].how = "returned"
        /\ sleep_threshold >= 1
        /\ done[t].first = RateLimited(1)
        /\ done[t].res = RateLimited(1)
        /\ done[t].sends = 2

\* C5: a 429 whose retry-after value is above sleep_threshold, and any 429 when
\* the threshold is left at its default, is not retried: invoke returns the
\* original error after one send.
C5_RateLimitNotRetried ==
    \A t \in Threads :
        ( /\ done[t].how = "returned"
          /\ IsRateLimit(done[t].first)
          /\ \/ ~WithinThreshold(done[t].first)
             \/ sleep_threshold = DefaultSleepThreshold )
        => (done[t].sends = 1 /\ done[t].res = done[t].first)

StaleChatCall(fin) ==
    /\ fin.how # "none"
    /\ ~use_message_database
    /\ fin.chat
    /\ fin.first = ChatNotFound

\* C6: with the message database disabled, a call carrying chat_id that failed
\* with 'Chat not found' and whose getChat lookup succeeded is sent again
\* exactly once and invoke returns the answer to that second send.
C6_StaleChatResent ==
    \A t \in Threads :
        (StaleChatCall(done[t]) /\ done[t].lookRet.type = "ok")
        => /\ done[t].how = "returned"
           /\ done[t].sends = 2
           /\ done[t].att = 2

\* C7: with the message database disabled, a call carrying chat_id that failed
\* with 'Chat not found' and whose getChat lookup failed (it returned an error,
\* or was itself answered 'Chat not found') is not sent again, and invoke
\* returns the original error.
C7_StaleChatLookupFailed ==
    \A t \in Threads :
        ( /\ StaleChatCall(done[t])
          /\ \/ is_error(done[t].lookRet)
             \/ done[t].look = ChatNotFound )
        => /\ done[t].how = "returned"
           /\ done[t].sends = 1
           /\ done[t].res = done[t].first

\* The frame has what the stale-chat policy asks for: the message database is
\* disabled, the request carries chat_id and its first answer was the error 400
\* 'Chat not found'.
PolicyApplies(chat, first) ==
    ~use_message_database /\ chat /\ first = ChatNotFound

\* C38: the stale-chat policy is triggered only with the message database
\* disabled, on a request carrying chat_id, by the error 400 'Chat not found'.
\* Otherwise no getChat or getMessage lookup is issued, and with the database
\* enabled a 'Chat not found' on a request carrying chat_id is returned
\* unmodified after the one send.
C38_StaleChatOnlyWithoutDatabase ==
    \A t \in Threads :
        /\ \A i \in 1..Len(stack[t]) :
              LET f == stack[t][i]
              IN  (i < Len(stack[t]) \/ f.pc \in {"inGetChat", "inGetMessage"}
                     \/ f.look # NoResult \/ f.lookRet # NoResult)
                  => PolicyApplies(f.chat, f.first)
        /\ (done[t].look # NoResult \/ done[t].lookRet # NoResult)
              => PolicyApplies(done[t].chat, done[t].first)
        /\ ( /\ done[t].how # "none"
             /\ use_message_database
             /\ done[t].chat
             /\ done[t].first = ChatNotFound )
           => /\ done[t].how = "returned"
              /\ done[t].res = ChatNotFound
              /\ done[t].sends = 1
              /\ done[t].att = 1

\* With the database enabled a call carrying chat_id and a message id was
\* answered 'Chat not found' and has returned.
C38_Witness ==
    \E t \in Threads :
        /\ use_message_database
        /\ done[t].how = "returned"
        /\ done[t].chat
        /\ done[t].msg
        /\ done[t].first = ChatNotFound

\* C39: an invoke call whose requests are all answered ends by returning its
\* Result, whatever the answers were: it never ends in an exception, and no
\* request of it goes to the engine more than twice.
C39_InvokeReturns ==
    \A t \in Threads :
        /\ done[t].how \in {"none", "returned"}
        /\ done[t].sends <= 2
        /\ \A i \in 1..Len(stack[t]) : stack[t][i].sends <= 2

\* The Receiver takes the next message of the engine and handles it.
ReadsMessage ==
    /\ is_running
    /\ receiver.pc = "poll"
    /\ inbox # <<>>
    /\ inbox' = Tail(inbox)

\* C40: a failure while the Receiver handles one message (a message without
\* "@type", an error raised by the in-line bookkeeping, a submission the pool
\* refuses) is contained to that message: on a client that has not been stopped
\* the Receiver Loop is still running after the message.
C40_ReceiverSurvivesFailure ==
    [][(ReadsMessage /\ ~workers_shutdown) => is_running']_vars

\* The list is in the order of the sort key: explicit positions ascending, then
\* the handlers without a position.
Sorted(list) ==
    \A i, j \in 1..Len(list) : i < j => ~KeyLess(list[j], list[i])

\* C8: after any sequence of add_handler and remove_handler calls the handler
\* list of every key is sorted: explicit positions ascending, None last.
C8_HandlersSorted == \A k \in Keys : Sorted(handlers[k])

\* Positions 2, 0, None, 1 registered in this order for one key: the list is
\* 0, 1, 2, None.
C8_Witness ==
    \E k \in Keys :
        /\ Len(handlers[k]) = 4
        /\ [i \in 1..4 |-> handlers[k][i].reg] = <<2, 4, 1, 3>>
        /\ [i \in 1..4 |-> handlers[k][i].hasPos] = <<TRUE, TRUE, TRUE, FALSE>>
        /\ [i \in 1..3 |-> handlers[k][i].pos] = <<0, 1, 2>>

\* C9: of two handlers of one key with the same position (or both without one)
\* the one registered earlier comes earlier in the list.
C9_TiesByRegistration ==
    \A k \in Keys : \A i, j \in 1..Len(handlers[k]) :
        LET a == handlers[k][i]
            b == handlers[k][j]
        IN  (i < j /\ a.hasPos = b.hasPos /\ a.pos = b.pos) => a.reg < b.reg

\* Some handler with the callback func is registered.
IsRegistered(func) ==
    \E k \in Keys : \E i \in 1..Len(handlers[k]) : handlers[k][i].func = func

\* The list after is the list before without its i-th element.
Without(before, i, after) ==
    /\ Len(after) = Len(before) - 1
    /\ \A j \in 1..Len(after) : after[j] = IF j < i THEN before[j] ELSE before[j + 1]

\* What a call remove_handler(func) has to do.
Removed(func) ==
    IF IsRegistered(func)
    THEN /\ lastRemove' = TRUE
         /\ \E k \in Keys : \E i \in 1..Len(handlers[k]) :
               /\ handlers[k][i].func = func
               /\ Without(handlers[k], i, handlers'[k])
               /\ \A other \in Keys \ {k} : handlers'[other] = handlers[other]
    ELSE /\ lastRemove' = FALSE
         /\ handlers' = handlers

\* C19: remove_handler(callback) returns True exactly when a handler with that
\* callback is registered; it then removes one registration of the callback and
\* leaves every other handler, and the order of the others, as they were;
\* otherwise it returns False and the registry is unchanged.
C19_RemoveHandler ==
    [][\A func \in Funcs : remove_handler(func) => Removed(func)]_vars

\* A handler was removed from a list that still holds two others.
C19_Witness ==
    /\ lastRemove
    /\ \E k \in Keys : Len(handlers[k]) >= 2
    /\ \E k \in Keys : Len(handlers[k]) + 1 = regCount

\* ------------------------------------------------------------ claims on the chain
\* How often the chain called the handler reg in a phase.
Ran(phase, reg) ==
    Cardinality({i \in 1..Len(chain.ran) :
                    chain.ran[i] = [phase |-> phase, reg |-> reg]})

\* The finalizers whose predicate accepts the event.
Accepting == {i \in 1..Len(handlers["finalizer"]) :
                 handlers["finalizer"][i].filter \in {"none", "accept"}}

\* C10: after a main-phase handler raised StopHandlers for an event no later
\* main-phase handler runs for it, and when the chain of the event is over every
\* finalizer whose predicate accepts the event has run exactly once.
C10_MainStopKeepsFinalizers ==
    chain.stopIn = "main" =>
        /\ \A i \in 1..Len(chain.ran) :
               i > chain.stopPos => chain.ran[i].phase # "main"
        /\ chain.pc = "done" =>
               \A i \in Accepting : Ran("post", handlers["finalizer"][i].reg) = 1

\* The chain of the event is run: the client runs, a list is registered under
\* the type of the event and the event is no local echo.
Dispatched == is_running /\ HasKey(chain.update.type) /\ ~IsEcho(chain.update)

\* The handlers under key whose predicate accepts the event.
Accepts(key) == {i \in 1..Len(handlers[key]) :
                    handlers[key][i].filter \in {"none", "accept"}}

\* Every handler under key whose predicate accepts the event has run once.
AllRan(phase, key) ==
    \A i \in Accepts(key) : Ran(phase, handlers[key][i].reg) = 1

\* The handlers the chain has called in a phase, in the order of the calls.
Called(phase) ==
    LET InPhase(e) == e.phase = phase
        es == SelectSeq(chain.ran, InPhase)
    IN  [i \in 1..Len(es) |-> es[i].reg]

\* The handlers under key whose predicate accepts the event, in list order.
AcceptedIn(key) ==
    LET Ok(h) == h.filter \in {"none", "accept"}
        hs == SelectSeq(handlers[key], Ok)
    IN  [i \in 1..Len(hs) |-> hs[i].reg]

\* The post-phase was run: the finalizers called are the accepting ones in list
\* order, all of them, or up to the one that raised StopHandlers itself.
PostPhaseRan ==
    LET post == Called("post")
        acc == AcceptedIn("finalizer")
    IN  /\ Len(post) <= Len(acc)
        /\ \A i \in 1..Len(post) : post[i] = acc[i]
        /\ IF chain.escaped THEN Len(post) >= 1 ELSE Len(post) = Len(acc)

\* C11: after an initializer raised StopHandlers for an event, no further
\* initializer and no main-phase handler runs for that event and the post-phase
\* is run; the chain of the next event runs its initializers and main-phase
\* handlers as if nothing had happened.
C11_PreStopSkipsMain ==
    /\ chain.stopIn = "pre" =>
          /\ \A i \in 1..Len(chain.ran) :
                 i > chain.stopPos => chain.ran[i].phase = "post"
          /\ chain.pc \in {"post", "done"}
          /\ chain.pc = "done" => PostPhaseRan
    /\ (chain.prev.stopIn = "pre" /\ chain.pc = "done" /\ Dispatched
           /\ chain.stopIn = "none")
          => AllRan("pre", "initializer") /\ AllRan("main", chain.update.type)

\* The chain before was stopped by an initializer; this one has run an
\* initializer, a main-phase handler and a finalizer.
C11_Witness ==
    /\ events = 2
    /\ chain.prev.stopIn = "pre"
    /\ chain.pc = "done"
    /\ chain.stopIn = "none"
    /\ Len(Called("pre")) >= 1
    /\ Len(Called("main")) >= 1
    /\ Len(Called("post")) >= 1

\* C12: an exception other than StopHandlers, raised by a handler of any phase
\* or by its predicate, ends neither the phase nor the chain: when the chain of
\* the event is over, every handler of every phase whose predicate accepts the
\* event has run; and the chain of the next event is run in full as well.
C12_ErrorsContained ==
    (/\ chain.errors \/ chain.prev.errors
     /\ chain.pc = "done"
     /\ Dispatched
     /\ chain.stopIn = "none"
     /\ ~chain.escaped)
        => /\ AllRan("pre", "initializer")
           /\ AllRan("main", chain.update.type)
           /\ AllRan("post", "finalizer")

\* The chain before logged an exception, and so did this one, in its first
\* phase; all the same it has called handlers of all three phases.
C12_Witness ==
    /\ events = 2
    /\ chain.prev.errors
    /\ chain.errors
    /\ chain.pc = "done"
    /\ chain.stopIn = "none"
    /\ ~chain.escaped
    /\ handlers["initializer"] # <<>>
    /\ handlers["initializer"][1].filter = "raise"
    /\ Len(Called("main")) >= 1
    /\ Len(Called("post")) >= 1

\* C13: for a new-message event that is outgoing and carries the sending_state
\* marker, no registered handler of any phase is called.
C13_EchoRunsNoHandler ==
    (/\ chain.update.type = "updateNewMessage"
     /\ chain.update.is_outgoing
     /\ chain.update.sending_state)
        => chain.ran = <<>> /\ chain.pc \in {"start", "done"}

\* The worker is through with a local echo although a handler without a
\* predicate is registered for every phase.
C13_Witness ==
    /\ chain.pc = "done"
    /\ is_running
    /\ chain.update = Update("updateNewMessage", TRUE, TRUE)
    /\ \A k \in ChainKeys : handlers[k] # <<>> /\ handlers[k][1].filter = "none"

\* C33: when the worker is through with an event that is no local echo,
\* whatever is registered for its type, every initializer whose predicate
\* accepts the event has run (unless a StopHandlers ended the phase) and every
\* finalizer whose predicate accepts it has run (a StopHandlers of a finalizer
\* is the case of C34).
C33_PrePostForEveryEvent ==
    (/\ chain.pc = "done"
     /\ chain.n > 0
     /\ is_running
     /\ ~IsEcho(chain.update))
        => /\ chain.stopIn = "none" => AllRan("pre", "initializer")
           /\ ~chain.escaped => AllRan("post", "finalizer")

\* C34: when the chain of a dispatched event is over, every finalizer whose
\* predicate accepts the event has run exactly once, whatever a finalizer
\* raised, an exception or a StopHandlers.
C34_FinalizersAllRun ==
    (chain.pc = "done" /\ chain.n > 0 /\ Dispatched)
        => AllRan("post", "finalizer")

\* C35: every handler in the registry that was made by a decorator is under
\* the key of that decorator, and holds it as its update type: initializer
\* gives a pre-phase handler and finalizer a post-phase handler, however the
\* decorator was bound.
C35_PhaseMatchesDecorator ==
    \A k \in Keys : \A i \in 1..Len(handlers[k]) :
        /\ k = DecoratedBy(handlers[k][i].func)
        /\ handlers[k][i].update_type = DecoratedBy(handlers[k][i].func)

\* The phase a key is run in.
PhaseOf(key) ==
    IF key = "initializer" THEN "pre" ELSE IF key = "finalizer" THEN "post" ELSE "main"

\* The handlers that were registered under key when the chain began, in list
\* order.
AtStart(key) == [i \in 1..Len(chain.snap[key]) |-> chain.snap[key][i].reg]

\* C17: the chain of an event calls the handlers that were registered when it
\* began, whatever is added or removed while it runs: no handler is called twice
\* for the event, and when the chain is over, no StopHandlers raised, the
\* handlers called in each phase are those registered at its start, in order.
C17_ChainRunsSnapshot ==
    /\ \A i \in 1..Len(chain.ran) : Ran(chain.ran[i].phase, chain.ran[i].reg) = 1
    /\ (chain.pc = "done" /\ chain.stopIn = "none" /\ ~chain.escaped) =>
           \A k \in Phases \cup {chain.update.type} :
               k \in Keys => Called(PhaseOf(k)) = AtStart(k)

\* ------------------------------------------------------------ claims on sending
\* C15: the Receiver thread blocks nowhere but in the receive poll: it never
\* sleeps and never waits in invoke for an answer that it alone could read.
C15_ReceiverNeverBlocks == receiver.pc = "poll"

\* C20: two sends that are pending at the same time never wait under the same
\* key of the Pending-Call Table.
C20_PendingKeysDistinct ==
    \A s1, s2 \in Senders :
        (s1 # s2 /\ sender[s1].pc = "wait" /\ sender[s2].pc = "wait")
            => sender[s1].key # sender[s2].key

\* The Receiver reads an acknowledgement in this step.
ReadsAck ==
    /\ is_running
    /\ receiver.pc = "poll"
    /\ inbox # <<>>
    /\ inbox' = Tail(inbox)
    /\ HasType(Head(inbox))
    /\ Head(inbox).type \in {"updateMessageSendSucceeded", "updateMessageSendFailed"}

\* C36: the composite key is injective on the sends that are pending (the same
\* key means the same message id and the same chat id), and the
\* acknowledgement of one message resolves no send but the one of that message
\* and that chat.
C36_KeyInjective ==
    /\ [](\A s1, s2 \in Senders :
             (/\ sender[s1].pc = "wait"
              /\ sender[s2].pc = "wait"
              /\ CompositeKey(sender[s1].message_id, sender[s1].chat_id)
                   = CompositeKey(sender[s2].message_id, sender[s2].chat_id))
                 => /\ sender[s1].message_id = sender[s2].message_id
                    /\ sender[s1].chat_id = sender[s2].chat_id)
    /\ [][ReadsAck
            => \A s \in Senders :
                   (sender[s].pc = "wait" /\ sender'[s].pc = "done")
                       => /\ sender[s].message_id = Head(inbox).old_message_id
                          /\ sender[s].chat_id = Head(inbox).chat_id]_vars

\* The Receiver reads a failure acknowledgement with code 429 and a delay
\* within the threshold for an entry of the table.
ReadsRetriable ==
    /\ ReadsAck
    /\ Head(inbox).type = "updateMessageSendFailed"
    /\ Head(inbox).error_code = 429
    /\ Head(inbox).retry_after <= sleep_threshold
    /\ InTable(CompositeKey(Head(inbox).old_message_id, Head(inbox).chat_id))

\* C37: a 429 failure acknowledgement within the threshold for a registered
\* entry removes the old key, and the request is sent again, the entry is
\* registered again under the key of the new message and the caller that owns
\* it is eventually resolved.
C37_SendFailureRetried ==
    /\ [][ReadsRetriable
            => ~\E e \in table' :
                   e.key = CompositeKey(Head(inbox).old_message_id, Head(inbox).chat_id)]_vars
    /\ \A s \in Senders :
           (receiver.pc = "sleep" /\ receiver.owner = s)
               ~> (receiver.pc = "poll" /\ \E e \in table : e.owner = s)
    /\ \A s \in Senders :
           (receiver.pc = "sleep" /\ receiver.owner = s) ~> (sender[s].pc = "done")

\* ------------------------------------------------------------ claims on authorization
\* The events of a login by phone number and code, and the calls they ask for.
Flow == <<"WaitTdlibParameters", "WaitPhoneNumber", "WaitCode", "Ready">>

FlowCalls == <<"setTdlibParameters", "phone number or bot token",
               "checkAuthenticationCode", "getMe">>

\* Both calls of the second step count as the same step.
StepOf(call) ==
    IF call \in {"checkAuthenticationBotToken", "setAuthenticationPhoneNumber"}
    THEN "phone number or bot token" ELSE call

\* The steps of the calls issued, a step the operator had to repeat taken once.
RECURSIVE Steps(_)
Steps(issued) ==
    IF issued = <<>> THEN <<>>
    ELSE LET n == Len(issued)
             before == Steps(SubSeq(issued, 1, n - 1))
             step == StepOf(issued[n])
         IN  IF before # <<>> /\ before[Len(before)] = step
             THEN before ELSE Append(before, step)

IsPrefix(a, b) == Len(a) <= Len(b) /\ a = SubSeq(b, 1, Len(a))

\* C14: with login requested, while the events handled are WaitTdlibParameters,
\* WaitPhoneNumber, WaitCode, Ready in this order, the calls issued are, one for
\* each event handled and in this order, setTdlibParameters, the phone-number or
\* bot-token call, checkAuthenticationCode, and getMe once login() has seen
\* Ready; is_authenticated is true exactly from the answer of getMe on.
C14_LoginSequence ==
    (login_requested /\ IsPrefix(authLog.handled, Flow)) =>
        LET k == Len(authLog.handled)
            asked == IF k < 3 THEN k ELSE 3
            gotMe == authLog.issued # <<>>
                        /\ authLog.issued[Len(authLog.issued)] = "getMe"
        IN  /\ Steps(authLog.issued) =
                  SubSeq(FlowCalls, 1, asked) \o (IF gotMe THEN <<"getMe">> ELSE <<>>)
            /\ gotMe => k = 4
            /\ is_authenticated <=> gotMe
            /\ (k = 4 /\ mainPc = "returned") => is_authenticated

\* The four events were handled, the operator had to enter the code twice, and
\* login() has returned.
C14_Witness ==
    /\ login_requested
    /\ authLog.handled = Flow
    /\ authLog.rejects = MaxRejects
    /\ Len(authLog.issued) = 5
    /\ authLog.issued[3] = "checkAuthenticationCode"
    /\ mainPc = "returned"
    /\ is_authenticated

\* C16: a handler called for an authorization event finds a recorded
\* authorization state at least as recent as that event: the state of the n-th
\* event, or of a later one, has been recorded when a handler is about to be
\* called for the n-th event.
C16_StateRecordedBeforeHandlers ==
    (/\ chain.update.type \in AuthTypes
     /\ chain.pc = "main"
     /\ chain.idx < Len(handlers[chain.update.type]))
        => authLog.recorded >= chain.n

\* C18: stop() returns True only when the state Closed has been recorded, and
\* with its return the client is torn down (not running, not authenticated,
\* pool shut down); stop() called on an instance that is stopped already (not
\* running, state Closed) raises RuntimeError and changes nothing of the client,
\* and stop() raises RuntimeError on no other instance.
C18_Stop ==
    [][/\ (stopper'.returned > stopper.returned) =>
              /\ authorization_state = "Closed"
              /\ authorization_state' = "Closed"
              /\ ~is_running' /\ ~is_authenticated' /\ workers_shutdown'
       /\ (stopper'.calls > stopper.calls) =>
              IF ~is_running /\ authorization_state = "Closed"
              THEN /\ stopper'.pc = "raised"
                   /\ UNCHANGED <<coreVars, regVars, chainVars, sendVars>>
                   /\ UNCHANGED <<mainPc, login_requested, authorization_state,
                                  is_closing, token, pool, task, tdState, tdEvents,
                                  authErrors, workers, authLog>>
              ELSE stopper'.pc # "raised"]_vars

\* A first stop() has returned True and a second one has raised RuntimeError.
C18_Witness ==
    /\ stopper.returned = 1
    /\ stopper.calls = 2
    /\ stopper.pc = "raised"

\* C21: once an authorization event Closed has been handled while no stop() of
\* the application was in progress, the client is torn down: the worker pool is
\* shut down and is_running is false, with login requested or not.
C21_ClosedTearsDown ==
    (authorization_state = "Closed" /\ ~is_closing)
        => (workers_shutdown /\ ~is_running)

\* The Receiver reads the message at the head of the inbox in this step.
Reads(update) ==
    /\ is_running
    /\ receiver.pc = "poll"
    /\ inbox # <<>>
    /\ Head(inbox) = update
    /\ inbox' = Tail(inbox)

\* C22: when the Receiver reads a failed acknowledgement with code 429 whose
\* retry_after exceeds sleep_threshold, for a key that is in the table, the entry
\* is removed in that step and its waiting caller is resolved with the error.
C22_OverThresholdResolved ==
    [][\A s \in Senders, n \in 1..MaxRetryAfter :
          LET update == Failed(sender[s].message_id, sender[s].chat_id, 429, n)
              key == CompositeKey(update.old_message_id, update.chat_id)
          IN  (/\ Reads(update)
               /\ n > sleep_threshold
               /\ InTable(key)
               /\ Owner(key) = s)
                  => /\ \A e \in table' : e.key # key
                     /\ sender'[s].pc = "done"
                     /\ sender'[s].res = "error"]_vars

\* C23: at most one thread is inside the loop of __listen_loop at any time.
C23_OneReceiver == Cardinality(Looping) <= 1

\* The frames of the invoke calls in progress: thread and depth.
Frames == {<<t, d>> : t \in Threads, d \in 1..RecursionLimit}

Live(fr) == fr[2] <= Len(stack[fr[1]])

\* The frame is the same call, before and after the step.
Stays(fr) ==
    /\ Live(fr)
    /\ fr[2] <= Len(stack'[fr[1]])
    /\ stack'[fr[1]][fr[2]].id = stack[fr[1]][fr[2]].id

\* C24: a step that takes an entry out of the Pending-Call Table is the arrival
\* of a message with that key: it takes out that entry only, resolves the Call
\* Future of that entry with a payload of the engine and no other future, and
\* hands nothing to the handlers. A Call Future is resolved only by a step that
\* takes its entry out, and once it is resolved no later message changes its
\* payload.
C24_ResponseResolvesOnce ==
    [][/\ \A e \in results \ results' :
              LET fr == <<e.t, e.d>>
              IN  /\ results' = results \ {e}
                  /\ Stays(fr)
                  /\ ~stack[e.t][e.d].processed
                  /\ stack'[e.t][e.d].processed
                  /\ stack'[e.t][e.d].res \in Responses
                  /\ \A other \in Frames \ {fr} :
                         Live(other) =>
                             Stays(other)
                                 /\ stack'[other[1]][other[2]] = stack[other[1]][other[2]]
                  /\ UNCHANGED <<chainVars, pool>>
       /\ \A fr \in Frames :
              Stays(fr) =>
                  LET old == stack[fr[1]][fr[2]]
                      new == stack'[fr[1]][fr[2]]
                  IN  /\ (~old.processed /\ new.processed) =>
                             \E e \in results \ results' :
                                 e.id = old.id /\ <<e.t, e.d>> = fr
                      /\ old.processed =>
                             new.processed /\ new.res = old.res]_vars

\* A call was answered and its Result resolved, and the answer is delivered a
\* second time while the call has not returned yet: the key is no longer in the
\* table.
C24_Witness ==
    \E t \in Threads :
        /\ stack[t] # <<>>
        /\ Top(stack[t]).processed
        /\ Top(stack[t]).res = OkPayload
        /\ Registered(Top(stack[t]).id) = {}
        /\ Top(stack[t]).id \in Answered

\* The Receiver reads the head of the inbox in this step.
ReadsHead ==
    /\ is_running
    /\ receiver.pc = "poll"
    /\ inbox # <<>>
    /\ inbox' = Tail(inbox)

\* The three cases of the classification, the first that matches.
IsCallResponse(update) ==
    HasType(update) /\ HasExtra(update) /\ Registered(update.extra.id) # {}

IsOptionError(update) ==
    /\ HasType(update) /\ HasExtra(update)
    /\ ~IsCallResponse(update)
    /\ update.type = "error"
    /\ "option" \in DOMAIN update.extra

IsUnsolicited(update) ==
    HasType(update) /\ ~IsCallResponse(update) /\ ~IsOptionError(update)

\* The step hands the event to the pool for the handler chain, once.
SubmittedOnce(update) ==
    /\ events' = events + 1
    /\ Len(pool') > Len(pool)
    /\ SubSeq(pool', 1, Len(pool)) = pool
    /\ pool'[Len(pool')] = Task("update", update, events + 1)
    /\ \A i \in (Len(pool) + 1)..(Len(pool') - 1) : pool'[i].kind # "update"

\* C25: of the message the Receiver reads, the first of three cases applies: its
\* key is in the Pending-Call Table and the call is resolved, nothing being
\* submitted; or it is an error with an option context and is dropped; or, for
\* every other message with a type, a correlation field that matches no pending
\* call included, it is submitted to the pool as an event.
C25_FirstMatchOfThree ==
    [][ReadsHead =>
          LET update == Head(inbox)
          IN  /\ IsCallResponse(update) =>
                     /\ Registered(update.extra.id) \cap results' = {}
                     /\ UNCHANGED <<pool, events>>
              /\ IsOptionError(update) => UNCHANGED <<results, stack, pool, events>>
              /\ IsUnsolicited(update) => SubmittedOnce(update)]_vars

\* The Receiver has read an event and not yet submitted it: it is inside the
\* in-line handler of the event.
InHandler == receiver.pc # "poll"

\* The in-line bookkeeping of the event shows after the step.
BookkeepingApplied(update) ==
    /\ update.type = "updateConnectionState" =>
           book'.connection_state = update.state.type
    /\ update.type = "updateOption" =>
           book'.options = <<OptionValue(update.value)>>
    /\ (update.type = "updateUser" /\ is_authenticated /\ update.user.id = book.me.id) =>
           book'.me = update.user

\* C26: every event the Receiver reads (a message with a type and no
\* correlation field) is submitted to the pool: the Receiver does not stay
\* inside the in-line handler of an event, and when it leaves the handler the
\* event goes to the pool exactly once, the bookkeeping of connection_state,
\* options and me applied.
C26_EventSubmittedOnce ==
    /\ [][ReadsHead =>
              LET update == Head(inbox)
              IN  (HasType(update) /\ ~HasExtra(update) /\ receiver'.pc = "poll") =>
                      SubmittedOnce(update) /\ BookkeepingApplied(update)]_vars
    /\ (InHandler ~> ~InHandler)

\* Every authorization event the engine emitted has been handled.
Quiescent ==
    /\ tdEvents = <<>>
    /\ \A i \in 1..Len(pool) : pool[i].kind # "authorization"
    /\ \A t \in running : t.kind # "authorization"

\* C27: with two or more workers, the recorded authorization state is never
\* set to the state of an earlier event after it was set to that of a later
\* one, and once every event received has been handled it is the state of the
\* last event received, which is the state the engine is in.
C27_BookkeepingOrdered ==
    /\ [][workers >= 2 => authLog'.recorded >= authLog.recorded]_vars
    /\ []((workers >= 2 /\ Quiescent /\ authLog.handed > 0)
              => authorization_state = tdState)

\* ------------------------------------------------------------ claims on the prompts
\* How often x is in the sequence.
Times(log, x) == Cardinality({i \in DOMAIN log : log[i] = x})

\* This step is __handle_authorization_state running for an event of the state.
Handles(state) == authLog'.handled = Append(authLog.handled, state)

\* The workers that are in the password prompt: they ask the operator and
\* wait for the answer to checkAuthenticationPassword.
PasswordPrompts ==
    (IF task.pc = "call" /\ task.state = "WaitPassword" THEN 1 ELSE 0)
        + Cardinality({r \in running : r.state = "WaitPassword"})

\* This step starts no prompt and issues no call.
NoPrompt ==
    /\ authLog'.issued = authLog.issued
    /\ task'.pc = "call" => task.pc = "call"
    /\ running' = running

\* This step starts one password prompt, which issues its call.
OnePrompt ==
    /\ authLog'.issued = Append(authLog.issued, "checkAuthenticationPassword")
    /\ PasswordPrompts' = PasswordPrompts + 1

C30_EmailSolicited ==
    /\ [][(Handles("WaitEmailAddress") /\ login_requested /\ is_running)
            => authLog'.issued =
                   Append(authLog.issued, "setAuthenticationEmailAddress")]_vars
    /\ [][(task.pc = "call" /\ task.state = "WaitEmailAddress"
              /\ authLog'.rejects > authLog.rejects)
            => /\ task'.pc = "call"
               /\ authLog'.issued =
                      Append(authLog.issued, "setAuthenticationEmailAddress")]_vars

\* This step is the password prompt issuing a call for what the operator typed.
PromptCalls ==
    /\ task'.pc = "call"
    /\ task'.state = "WaitPassword"
    /\ Len(authLog'.issued) = Len(authLog.issued) + 1

\* C31: at the password prompt, an empty password with a recovery address in
\* the state starts the recovery (requestAuthenticationPasswordRecovery) and
\* issues no checkAuthenticationPassword; a non-empty password is submitted
\* with checkAuthenticationPassword.
C31_EmptyPasswordRecovers ==
    [][PromptCalls
          => LET input == task'.input
                 call == authLog'.issued[Len(authLog'.issued)]
             IN  /\ (input.entered = <<>> /\ input.recovery)
                        => call = "requestAuthenticationPasswordRecovery"
                 /\ input.entered = <<>> => call # "checkAuthenticationPassword"
                 /\ input.entered # <<>> => call = "checkAuthenticationPassword"]_vars

\* The worker is in a step that asks the operator, by the state of the step:
\* the phone number or token when none was given, the email code, the login
\* code, the registration, the password.
InteractiveStep ==
    /\ task.pc = "call"
    /\ \/ task.state = "WaitPhoneNumber" /\ token = "none"
       \/ task.state \in {"WaitEmailCode", "WaitCode", "WaitRegistration",
                           "WaitPassword"}

\* C32: a step that asks the operator raises no authorization error, and it
\* changes in two ways only: its call is rejected and it submits again, still
\* in the same step, or its call is accepted, the engine goes on and the
\* handler returns.
C32_InteractiveRetried ==
    [][InteractiveStep
          => /\ authErrors' = authErrors
             /\ task' # task
                   => \/ /\ task'.pc = "call"
                         /\ task'.state = task.state
                         /\ authLog'.rejects = authLog.rejects + 1
                         /\ Len(authLog'.issued) = Len(authLog.issued) + 1
                      \/ /\ task' = NoTask
                         /\ Len(tdEvents') = Len(tdEvents) + 1
                         /\ authLog' = authLog]_vars

\* The registration was rejected once and is submitted again; no error was
\* raised.
C32_Witness ==
    /\ task.pc = "call"
    /\ task.state = "WaitRegistration"
    /\ authLog.rejects = 1
    /\ Times(authLog.issued, "registerUser") = 2
    /\ authErrors = 0

\* C3: once a non-interactive authorization step has been rejected, login() does
\* not go on waiting for Ready: it ends (the claim says by raising the
\* authorization error; any way of ending is accepted here).
C3_AuthErrorEndsLogin == (authErrors > 0) ~> (mainPc \in {"raised", "returned"})

====
